---- MODULE Spec2Model ----
(***************************************************************************)
(* A model of the fat32x read-only FAT32/exFAT driver: the FAT chain       *)
(* walkers, the directory readers and reducers of both back-ends, the      *)
(* range read, and the inode cache (Fs) the mount bridge talks to.         *)
(*                                                                         *)
(* A 64-bit id is kept as the pair <<high 32 bits, low 32 bits>>.          *)
(* A 32-byte directory record is kept as a record of the fields the code   *)
(* decodes from it; a FAT entry is kept as its four bytes.                 *)
(* Time stamps of a file-info are left out: no operation modelled here     *)
(* reads them.                                                             *)
(***************************************************************************)
EXTENDS Integers, Sequences, FiniteSets, TLC

VARIABLES backend, disk, dirmap, fmap, filesopen, panicked, lastop, ret,
          nreads, opens, closes

vars == <<backend, disk, dirmap, fmap, filesopen, panicked, lastop, ret,
          nreads, opens, closes>>

(***************************************************************************)
(* Bounds of the model.                                                    *)
(***************************************************************************)
\* directory records per cluster (cluster size / 32)
EntsPerClus == 2
\* longest directory content drawn for a listing, in records
MaxRecs == 5

(***************************************************************************)
(* Small helpers.                                                          *)
(***************************************************************************)
Min(a, b) == IF a < b THEN a ELSE b

\* (hi as u64) << 32 | lo as u64, for 32-bit hi and lo
U64(hi, lo) == <<hi, lo>>

Ok(v) == [ok |-> TRUE, val |-> v]

Panic == [ok |-> FALSE, val |-> <<>>]

\* a loop of the code that never ends (it also grows its vector without limit)
Hang == [ok |-> FALSE, val |-> <<"hang">>]

Some(v) == [some |-> TRUE, val |-> v]

None == [some |-> FALSE, val |-> <<>>]

\* x & (2^k - 1) != 0 for a single bit `bit` (a power of two) of a byte
BitSet(x, bit) == (x \div bit) % 2 = 1

(***************************************************************************)
(* FAT32: FAT entries and the chain iterator.                              *)
(***************************************************************************)
\* FatEnt::new without the mask of the top four bits (not what the code does)
FatEnt_new_NoMask(buf) ==
    IF buf[4] = 0 /\ buf[3] = 0 /\ buf[2] = 0 /\ buf[1] = 0
    THEN [tag |-> "Unused", no |-> 0]
    ELSE IF buf[4] = 0 /\ buf[3] = 0 /\ buf[2] = 0 /\ buf[1] = 1
    THEN [tag |-> "Reserved", no |-> 0]
    ELSE IF buf[4] = 15 /\ buf[3] = 255 /\ buf[2] = 255 /\ buf[1] >= 248
    THEN [tag |-> "Eoc", no |-> 0]
    ELSE IF buf[4] = 15 /\ buf[3] = 255 /\ buf[2] = 255 /\ buf[1] = 247
    THEN [tag |-> "Bad", no |-> 0]
    ELSE [tag |-> "Next",
          no |-> buf[1] + 256 * buf[2] + 65536 * buf[3] + 16777216 * (buf[4] % 16)]

FatEnt_new(buf) ==
    LET buf_3 == buf[4] % 16 IN
    IF buf_3 = 0 /\ buf[3] = 0 /\ buf[2] = 0 /\ buf[1] = 0
    THEN [tag |-> "Unused", no |-> 0]
    ELSE IF buf_3 = 0 /\ buf[3] = 0 /\ buf[2] = 0 /\ buf[1] = 1
    THEN [tag |-> "Reserved", no |-> 0]
    ELSE IF buf_3 = 15 /\ buf[3] = 255 /\ buf[2] = 255 /\ buf[1] >= 248
    THEN [tag |-> "Eoc", no |-> 0]
    ELSE IF buf_3 = 15 /\ buf[3] = 255 /\ buf[2] = 255 /\ buf[1] = 247
    THEN [tag |-> "Bad", no |-> 0]
    ELSE [tag |-> "Next",
          no |-> buf[1] + 256 * buf[2] + 65536 * buf[3] + 16777216 * buf_3]

\* the four little-endian bytes of a FAT word below 2^28
LeBytes(n) == <<n % 256, (n \div 256) % 256, (n \div 65536) % 256, n \div 16777216>>

EocBytes == <<255, 255, 255, 15>>

exfat_EocBytes == <<255, 255, 255, 255>>

\* The read of a FAT sector that is not on the device fails and the unwrap
\* of its result panics: "Fault" stands for that, and is no FatEnt.
Fat_read_one(d, no) ==
    IF no \in DOMAIN d.fat THEN FatEnt_new(d.fat[no]) ELSE [tag |-> "Fault", no |-> 0]

\* FatIter::next run `count` times at most (count < 0: until the chain ends):
\* the cluster numbers yielded, or a panic on a Bad/Unused/Reserved entry.
\* A chain longer than the FAT has entries is on a cycle and never ends.
RECURSIVE FatIter_collect(_, _, _, _)
FatIter_collect(d, no, count, acc) ==
    IF count = 0 THEN Ok(acc)
    ELSE IF Len(acc) > Cardinality(DOMAIN d.fat) THEN Hang
    ELSE LET en == Fat_read_one(d, no) IN
         IF en.tag = "Eoc" THEN Ok(Append(acc, no))
         ELSE IF en.tag = "Next"
         THEN FatIter_collect(d, en.no, count - 1, Append(acc, no))
         ELSE Panic

Fat_new_iter(d, first_clusno) ==
    Fat_read_one(d, first_clusno).tag \in {"Eoc", "Next"}

Fat_read_all(d, first_clusno) ==
    IF Fat_new_iter(d, first_clusno)
    THEN FatIter_collect(d, first_clusno, -1, <<>>)
    ELSE Panic

(***************************************************************************)
(* FAT32: directory records (fat32/spec.rs).                               *)
(* A raw record has the fields                                             *)
(*   name (bytes 0..10; byte 0 is also the LFN ordinal), attr (byte 11),   *)
(*   nt_res (byte 12), chk (byte 13, the LFN checksum), fst_clus,          *)
(*   file_size, text (the UTF-16 text an LFN fragment carries, decoded).   *)
(***************************************************************************)
ATTR_READ_ONLY == 1
ATTR_HIDDEN == 2
ATTR_SYSTEM == 4
ATTR_VOLUME_ID == 8
ATTR_DIRECTORY == 16
ATTR_LONG_FILE_NAME == 15
BODY_LOW_CASE == 8

DirEnt_new(buf, clus_no, offset) ==
    IF buf.attr = ATTR_LONG_FILE_NAME
    THEN [t |-> "Lfn", ord |-> buf.name[1], chksum |-> buf.chk, text |-> buf.text]
    ELSE [t |-> "Sfn", name |-> buf.name, attr |-> buf.attr, nt_res |-> buf.nt_res,
          fst_clus |-> buf.fst_clus, file_size |-> buf.file_size,
          clus_no |-> clus_no, off |-> offset]

RECURSIVE chksum_fold(_, _, _)
chksum_fold(name, i, sum) ==
    IF i > 11 THEN sum
    ELSE chksum_fold(name, i + 1,
                     (name[i] + (sum \div 2) + ((sum * 128) % 256)) % 256)

\* the sum of the bytes without the rotation (not what the code does)
RECURSIVE chksum_plain(_, _)
chksum_plain(name, i) ==
    IF i > 11 THEN 0 ELSE (name[i] + chksum_plain(name, i + 1)) % 256

create_chksum_NoRotate(sfn) == chksum_plain(sfn.name, 1)

create_chksum(sfn) == chksum_fold(sfn.name, 1, 0)

is_end(sfn) == sfn.name[1] = 0

is_unused(sfn) == sfn.name[1] = 229 \/ is_end(sfn)

is_volumeid(sfn) == BitSet(sfn.attr, ATTR_VOLUME_ID)

is_dir(sfn) == BitSet(sfn.attr, ATTR_DIRECTORY)

is_last(lfn) == BitSet(lfn.ord, 64)

ordno(lfn) == lfn.ord % 64

\* char::to_lowercase of a char made from one byte (U+0000..U+00FF)
to_lowercase(ch) ==
    IF (65 <= ch /\ ch <= 90) \/ (192 <= ch /\ ch <= 222 /\ ch # 215)
    THEN ch + 32 ELSE ch

\* the first 8 bytes up to the first space
RECURSIVE sfn_base(_, _)
sfn_base(name, i) ==
    IF i > 8 \/ name[i] = 32 THEN <<>>
    ELSE <<name[i]>> \o sfn_base(name, i + 1)

sfn_ext(name) == SelectSeq(SubSeq(name, 9, 11), LAMBDA ch : ch # 32)

sfn_name(sfn) ==
    LET name == IF sfn.name[1] = 5 THEN [sfn.name EXCEPT ![1] = 229] ELSE sfn.name
        base == sfn_base(name, 1)
        ext == sfn_ext(name)
        res == IF ext # <<>> THEN base \o <<46>> \o ext ELSE base
    IN  IF BitSet(sfn.nt_res, BODY_LOW_CASE)
        THEN [i \in 1..Len(res) |-> to_lowercase(res[i])]
        ELSE res

(***************************************************************************)
(* FAT32: reduction of an LFN group and its SFN to a file-info             *)
(* (fat32/fio.rs, impl TryFrom<Vec<DirEnt>> for Finfo).                    *)
(***************************************************************************)
\* the id with the cluster number in the high half (not what the code does)
MkId_ClusterHigh(clus_no, off) == U64(clus_no, off)

\* the id of a file-info: (off as u64) << 32 | clus_no as u64
MkId(clus_no, off) == U64(off, clus_no)

\* longname.insert_str(0, ..) over the fragments in disk order
RECURSIVE lfn_longname(_, _)
lfn_longname(lfns, i) ==
    IF i > Len(lfns) THEN <<>>
    ELSE lfn_longname(lfns, i + 1) \o lfns[i].text

\* the try_fold over the ordinals: acc starts at len + 1 and must step down
RECURSIVE lfn_order_ok(_, _, _)
lfn_order_ok(lfns, i, acc) ==
    IF i > Len(lfns) THEN TRUE
    ELSE IF acc - 1 = ordno(lfns[i]) THEN lfn_order_ok(lfns, i + 1, acc - 1)
    ELSE FALSE

\* the checks of the long name without the one of the order (not what the
\* code does)
lfn_valid_NoOrder(lfns, chksum) ==
    /\ is_last(lfns[1])
    /\ \A i \in 1..Len(lfns) : lfns[i].chksum = chksum

lfn_valid(lfns, chksum) ==
    /\ is_last(lfns[1])
    /\ \A i \in 1..Len(lfns) : lfns[i].chksum = chksum
    /\ lfn_order_ok(lfns, 1, Len(lfns) + 1)

\* try_from without the test of is_unused and is_volumeid (not what the code
\* does)
Finfo_try_from_NoFilter(ents) ==
    LET sfn == ents[Len(ents)] IN
    Ok([id |-> MkId(sfn.clus_no, sfn.off),
        name |-> sfn_name(sfn),
        is_rdonly |-> BitSet(sfn.attr, ATTR_READ_ONLY),
        is_hidden |-> BitSet(sfn.attr, ATTR_HIDDEN),
        is_system |-> BitSet(sfn.attr, ATTR_SYSTEM),
        is_dir |-> is_dir(sfn),
        size |-> sfn.file_size,
        fst_clus |-> sfn.fst_clus])

\* ents: the pending records, the SFN last.  Err is [ok |-> FALSE].
Finfo_try_from(ents) ==
    LET sfn == ents[Len(ents)]
        lfns == SubSeq(ents, 1, Len(ents) - 1)
        chksum == create_chksum(sfn)
        name == IF lfns # <<>> /\ Len(lfns) <= 20 /\ lfn_valid(lfns, chksum)
                THEN lfn_longname(lfns, 1)
                ELSE sfn_name(sfn)
    IN  IF is_unused(sfn) \/ is_volumeid(sfn) THEN Panic
        ELSE Ok([id |-> MkId(sfn.clus_no, sfn.off),
                 name |-> name,
                 is_rdonly |-> BitSet(sfn.attr, ATTR_READ_ONLY),
                 is_hidden |-> BitSet(sfn.attr, ATTR_HIDDEN),
                 is_system |-> BitSet(sfn.attr, ATTR_SYSTEM),
                 is_dir |-> is_dir(sfn),
                 size |-> sfn.file_size,
                 fst_clus |-> sfn.fst_clus])

(***************************************************************************)
(* FAT32: Fio::read_dirents.                                               *)
(***************************************************************************)
ClusIo_read(d, clus_no) == d.clus[clus_no]

\* the inner loop over the records of one cluster, from record `off` on:
\* the pending LFN fragments and the result after it.  An end record clears
\* the pending fragments and leaves this loop.
RECURSIVE scan_clus(_, _, _, _, _)
scan_clus(clus, clus_no, off, ents, res) ==
    IF off >= Len(clus) THEN [ents |-> ents, res |-> res]
    ELSE LET dirent == DirEnt_new(clus[off + 1], clus_no, off) IN
         IF dirent.t = "Lfn"
         THEN scan_clus(clus, clus_no, off + 1, Append(ents, dirent), res)
         ELSE IF is_end(dirent)
         THEN [ents |-> <<>>, res |-> res]
         ELSE LET file == Finfo_try_from(Append(ents, dirent)) IN
              scan_clus(clus, clus_no, off + 1, <<>>,
                        IF file.ok THEN Append(res, file.val) ELSE res)

\* the outer loop over the clusters of the chain
RECURSIVE scan_chain(_, _, _, _, _)
scan_chain(d, fats, i, ents, res) ==
    IF i > Len(fats) THEN res
    ELSE LET st == scan_clus(ClusIo_read(d, fats[i]), fats[i], 0, ents, res) IN
         scan_chain(d, fats, i + 1, st.ents, st.res)

read_dirents(d, first_clusno) ==
    IF first_clusno = 0 THEN Ok(<<>>)
    ELSE IF first_clusno = 1 THEN Panic
    ELSE LET fats == Fat_read_all(d, first_clusno) IN
         IF fats.ok THEN Ok(scan_chain(d, fats.val, 1, <<>>, <<>>)) ELSE fats

(***************************************************************************)
(* exFAT: FAT entries and the chain walk (fio/exfat.rs).                   *)
(* The model keeps cluster counts below 2^24, so a FAT word is at most     *)
(* clus_cnt + 1 only if its top byte is 0.                                 *)
(***************************************************************************)
exfat_read_fat(d, clusno) ==
    IF clusno < 2 \/ clusno > d.clus_cnt + 1 THEN [tag |-> "Reserved", no |-> 0]
    ELSE LET buf == d.fat[clusno]
             low == buf[1] + 256 * buf[2] + 65536 * buf[3]
         IN  IF buf[4] = 0 /\ low <= d.clus_cnt + 1
             THEN IF low >= 2 THEN [tag |-> "Chain", no |-> low]
                  ELSE [tag |-> "Reserved", no |-> 0]
             ELSE IF buf = <<255, 255, 255, 255>> THEN [tag |-> "EndOfChain", no |-> 0]
             ELSE IF buf = <<247, 255, 255, 255>> THEN [tag |-> "BadCluster", no |-> 0]
             ELSE [tag |-> "Reserved", no |-> 0]

RECURSIVE walk_fats_loop(_, _, _)
walk_fats_loop(d, clusno, acc) ==
    IF Len(acc) > d.clus_cnt THEN Hang
    ELSE LET en == exfat_read_fat(d, clusno)
             out == Append(acc, clusno)
         IN  IF en.tag = "Chain" THEN walk_fats_loop(d, en.no, out)
             ELSE IF en.tag = "BadCluster" THEN Panic
             ELSE Ok(out)

walk_fats(d, clusno) == walk_fats_loop(d, clusno, <<>>)

(***************************************************************************)
(* exFAT: directory records (spec/exfat.rs).  A raw record has the fields  *)
(*   typ (byte 0), file_attributes, first_cluster, valid_data_length,      *)
(*   text (the UTF-16 text a FileName record carries, decoded).            *)
(***************************************************************************)
exfat_Type(value) ==
    IF value = 129 THEN "AllocBitmap"
    ELSE IF value = 130 THEN "UpcaseTable"
    ELSE IF value = 131 THEN "VolumnLabel"
    ELSE IF value = 133 THEN "FileOrDir"
    ELSE IF value = 192 THEN "StreamExt"
    ELSE IF value = 193 THEN "FileName"
    ELSE IF 1 <= value /\ value <= 127 THEN "Unused"
    ELSE IF value = 0 THEN "FinalUnused"
    ELSE "Undefined"

exfat_DirEnt_new(buf, clusno, offset) ==
    [t |-> exfat_Type(buf.typ), ent |-> buf, pos |-> <<clusno, offset>>]

\* Fio::read_dirents: the records of the chain up to the first FinalUnused,
\* the Unused ones left out.  A cluster number below 2 underflows in
\* secnos_of_clusno; a cluster outside the device fails the read.
RECURSIVE exfat_scan(_, _, _, _, _)
exfat_scan(d, list, i, off, acc) ==
    IF i > Len(list) THEN Ok(acc)
    ELSE IF list[i] < 2 \/ list[i] \notin DOMAIN d.clus THEN Panic
    ELSE IF off >= Len(d.clus[list[i]]) THEN exfat_scan(d, list, i + 1, 0, acc)
    ELSE LET dirent == exfat_DirEnt_new(d.clus[list[i]][off + 1], list[i], off) IN
         IF dirent.t = "Undefined" THEN Panic
         ELSE IF dirent.t = "FinalUnused" THEN Ok(acc)
         ELSE IF dirent.t = "Unused" THEN exfat_scan(d, list, i, off + 1, acc)
         ELSE exfat_scan(d, list, i, off + 1, Append(acc, dirent))

exfat_read_dirents(d, clusno) ==
    LET clusno_list == walk_fats(d, clusno) IN
    IF clusno_list.ok THEN exfat_scan(d, clusno_list.val, 1, 0, <<>>)
    ELSE clusno_list

\* impl From<DirEnt> for Option<EntrySet>
is_EntrySet(dirent) == dirent.t \in {"FileOrDir", "StreamExt", "FileName"}

is_primary(set_ent) == set_ent.t = "FileOrDir"

RECURSIVE exfat_name(_, _)
exfat_name(ents, i) ==
    IF i > Len(ents) THEN <<>>
    ELSE ents[i].ent.text \o exfat_name(ents, i + 1)

\* the id of an exFAT file-info: (ent_off as u64) << 32 | ent_clusno as u64
exfat_MkId(ent_clusno, ent_off) == U64(ent_off, ent_clusno)

\* impl TryFrom<Vec<EntrySet>> for fio::Finfo
exfat_try_from(ents) ==
    IF Len(ents) < 3 THEN Panic
    ELSE IF ~(ents[1].t = "FileOrDir" /\ ents[2].t = "StreamExt") THEN Panic
    ELSE IF \E i \in 3..Len(ents) : ents[i].t # "FileName" THEN Panic
    ELSE LET ent_file == ents[1].ent
             ent_stream == ents[2].ent
         IN  Ok([id |-> exfat_MkId(ents[1].pos[1], ents[1].pos[2]),
                 name |-> exfat_name(ents, 3),
                 is_rdonly |-> BitSet(ent_file.file_attributes, 1),
                 is_hidden |-> BitSet(ent_file.file_attributes, 2),
                 is_system |-> BitSet(ent_file.file_attributes, 4),
                 is_dir |-> BitSet(ent_file.file_attributes, 16),
                 size |-> ent_stream.valid_data_length,
                 fst_clus |-> ent_stream.first_cluster])

\* the loop of Fio::list_dir: a primary flushes the pending set; the set
\* still pending when the records run out is dropped with the loop's end.
RECURSIVE list_dir_loop(_, _, _, _)
list_dir_loop(ents, i, pending_list, res) ==
    IF i > Len(ents) THEN res
    ELSE IF ~is_EntrySet(ents[i]) THEN list_dir_loop(ents, i + 1, pending_list, res)
    ELSE IF is_primary(ents[i]) /\ pending_list # <<>>
    THEN LET fi == exfat_try_from(pending_list) IN
         list_dir_loop(ents, i + 1, <<ents[i]>>,
                       IF fi.ok THEN Append(res, fi.val) ELSE res)
    ELSE list_dir_loop(ents, i + 1, Append(pending_list, ents[i]), res)

list_dir(d, clusno) ==
    LET ents == exfat_read_dirents(d, clusno) IN
    IF ents.ok THEN Ok(list_dir_loop(ents.val, 1, <<>>, <<>>)) ELSE ents

\* Fio::read_file of the exFAT back-end
exfat_read_file(d, fi, offset, size) == <<>>

(***************************************************************************)
(* FAT32: Fio::readfile.  u32 arithmetic is kept at its width: a sum above *)
(* U32Max overflows (a panic in a debug build, a wrapped value otherwise). *)
(***************************************************************************)
\* width of the model's u32, in bits
U32Bits == 3

U32Max == 2 ^ U32Bits - 1

Overflow == [ok |-> FALSE, val |-> <<"overflow">>]

RECURSIVE concat(_, _)
concat(seqs, i) ==
    IF i > Len(seqs) THEN <<>> ELSE seqs[i] \o concat(seqs, i + 1)

\* .skip(n) of a collected sequence
skip(seq, n) == SubSeq(seq, n + 1, Len(seq))

ClusIo_read_all(d, fats) == concat([i \in 1..Len(fats) |-> ClusIo_read(d, fats[i])], 1)

\* readfile without the cut at the end of the file (not what the code does)
readfile_Unclamped(d, fi, offset, size) ==
    IF offset >= fi.size \/ size = 0 THEN Ok(<<>>)
    ELSE LET start_clus == offset \div d.clus_sz
             start_off == offset % d.clus_sz
             iter == IF Fat_new_iter(d, fi.fst_clus)
                     THEN FatIter_collect(d, fi.fst_clus, -1, <<>>)
                     ELSE Panic
         IN  IF offset + size > U32Max THEN Overflow
             ELSE IF ~iter.ok THEN iter
             ELSE LET bytes == ClusIo_read_all(d, skip(iter.val, start_clus))
                  IN  IF start_off + size > Len(bytes) THEN Panic
                      ELSE Ok(SubSeq(bytes, start_off + 1, start_off + size))

\* readfile that slices from the start of the first cluster it read (not
\* what the code does)
readfile_NoStartOff(d, fi, offset, size) ==
    IF offset >= fi.size \/ size = 0 THEN Ok(<<>>)
    ELSE LET sz == Min(size, fi.size - offset)
             start_clus == offset \div d.clus_sz
             end_clus == (offset + sz - 1) \div d.clus_sz
             iter == IF Fat_new_iter(d, fi.fst_clus)
                     THEN FatIter_collect(d, fi.fst_clus, end_clus + 1, <<>>)
                     ELSE Panic
         IN  IF ~iter.ok THEN iter
             ELSE Ok(SubSeq(ClusIo_read_all(d, skip(iter.val, start_clus)), 1, sz))

readfile(d, fi, offset, size) ==
    IF offset >= fi.size \/ size = 0 THEN Ok(<<>>)
    ELSE LET sz == Min(size, fi.size - offset)
             start_clus == offset \div d.clus_sz
             start_off == offset % d.clus_sz
             end_clus == (offset + sz - 1) \div d.clus_sz
             iter == IF Fat_new_iter(d, fi.fst_clus)
                     THEN FatIter_collect(d, fi.fst_clus, end_clus + 1, <<>>)
                     ELSE Panic
         IN  IF offset + sz > U32Max THEN Overflow
             ELSE IF ~iter.ok THEN iter
             ELSE LET fats == skip(iter.val, start_clus)
                      bytes == ClusIo_read_all(d, fats)
                  IN  IF start_off + sz > Len(bytes) THEN Panic
                      ELSE Ok(SubSeq(bytes, start_off + 1, start_off + sz))

(***************************************************************************)
(* Disk images.  An image is built from items, each a directory (its       *)
(* records) or a file (its size); item k takes the next free clusters, in  *)
(* order.  Logical cluster l = 2, 3, 4, 5, .. lies at physical cluster     *)
(* Phys(l) = 3, 2, 5, 4, .. so that chains are not ascending.              *)
(***************************************************************************)
\* bytes per cluster of the images files are read from
ClusSz == 2

Phys(l) == IF l % 2 = 0 THEN l + 1 ELSE l - 1

CeilDiv(a, b) == (a + b - 1) \div b

Blank11 == <<32, 32, 32, 32, 32, 32, 32, 32, 32, 32, 32>>

Zero11 == <<0, 0, 0, 0, 0, 0, 0, 0, 0, 0, 0>>

Sfn(name, attr, nt_res, fst_clus, file_size) ==
    [name |-> name, attr |-> attr, nt_res |-> nt_res, chk |-> 0,
     fst_clus |-> fst_clus, file_size |-> file_size, text |-> <<>>]

Lfn(ord, chk, text) ==
    [name |-> [Zero11 EXCEPT ![1] = ord], attr |-> ATTR_LONG_FILE_NAME, nt_res |-> 0,
     chk |-> chk, fst_clus |-> 0, file_size |-> 0, text |-> text]

EndRec == Sfn(Zero11, 0, 0, 0, 0)

XRec(typ, file_attributes, first_cluster, valid_data_length, text) ==
    [typ |-> typ, file_attributes |-> file_attributes, first_cluster |-> first_cluster,
     valid_data_length |-> valid_data_length, text |-> text]

XFinal == XRec(0, 0, 0, 0, <<>>)

DirItem(recs, pad) == [t |-> "dir", recs |-> recs, pad |-> pad, size |-> 0]

\* a file of `size` bytes whose chain has `extra` clusters more than it needs
FileItem(size, extra) ==
    [t |-> "file", recs |-> <<>>, pad |-> EndRec, size |-> size + extra * ClusSz]

\* clusters an item takes: a directory at least one, an empty file none
NClus(item) ==
    IF item.t = "dir"
    THEN IF item.recs = <<>> THEN 1 ELSE CeilDiv(Len(item.recs), EntsPerClus)
    ELSE CeilDiv(item.size, ClusSz)

RECURSIVE Start(_, _)
Start(items, k) == IF k = 1 THEN 2 ELSE Start(items, k - 1) + NClus(items[k - 1])

\* first physical cluster of item k (0: the item has no cluster)
First(items, k) == IF NClus(items[k]) = 0 THEN 0 ELSE Phys(Start(items, k))

\* the item logical cluster l belongs to (0: none)
RECURSIVE ItemOf(_, _, _)
ItemOf(items, l, k) ==
    IF k > Len(items) THEN 0
    ELSE IF Start(items, k) <= l /\ l < Start(items, k) + NClus(items[k]) THEN k
    ELSE ItemOf(items, l, k + 1)

\* content of the j-th cluster (j = 0, 1, ..) of item k
ClusOf(items, k, j) ==
    IF items[k].t = "dir"
    THEN [e \in 1..EntsPerClus |->
            IF j * EntsPerClus + e <= Len(items[k].recs)
            THEN items[k].recs[j * EntsPerClus + e] ELSE items[k].pad]
    ELSE [b \in 1..ClusSz |-> (16 * k + j * ClusSz + b - 1) % 256]

\* eoc: the end-of-chain word of the format, as bytes
Build(items, eoc) ==
    LET top == Start(items, Len(items) + 1)
        last == IF top % 2 = 0 THEN top + 1 ELSE top
        used == 2..last
    IN  [fat |-> [p \in 0..last |->
                    IF p < 2 THEN EocBytes
                    ELSE LET l == Phys(p)
                             k == ItemOf(items, l, 1)
                         IN  IF k = 0 THEN <<0, 0, 0, 0>>
                             ELSE IF l + 1 < Start(items, k) + NClus(items[k])
                             THEN LeBytes(Phys(l + 1))
                             ELSE eoc],
         clus |-> [p \in {q \in used : ItemOf(items, Phys(q), 1) # 0} |->
                    LET l == Phys(p)
                        k == ItemOf(items, l, 1)
                    IN  ClusOf(items, k, l - Start(items, k))],
         clus_sz |-> ClusSz,
         clus_cnt |-> last - 1,
         root_clusno |-> First(items, 1)]

(***************************************************************************)
(* The inode cache (fs.rs).                                                *)
(***************************************************************************)
RootId == U64(0, 1)

NoMap == [x \in {} |-> <<>>]

\* fmap.insert(rc_fi.id, rc_fi) for every file of the list, in order
RECURSIVE insert_all(_, _, _)
insert_all(fm, files, i) ==
    IF i > Len(files) THEN fm
    ELSE insert_all([x \in DOMAIN fm \cup {files[i].id} |->
                        IF x = files[i].id THEN files[i] ELSE fm[x]],
                    files, i + 1)

\* Fs::new: the state after construction
Fs_new(d) ==
    LET rootfiles == read_dirents(d, d.root_clusno) IN
    [ok |-> rootfiles.ok,
     fmap |-> insert_all(NoMap, rootfiles.val, 1),
     dirmap |-> [x \in {RootId} |-> rootfiles.val]]

\* readdir that does not enter the children into the file-info map (not
\* what the code does)
Fs_readdir_NoInsert(dm, fm, d, id) ==
    IF id \in DOMAIN dm
    THEN [ok |-> TRUE, dirmap |-> dm, fmap |-> fm, val |-> dm[id], read |-> FALSE]
    ELSE IF id \in DOMAIN fm
    THEN LET rc_files == IF fm[id].fst_clus # 0 THEN read_dirents(d, fm[id].fst_clus)
                         ELSE Ok(<<>>)
         IN  [ok |-> rc_files.ok,
              dirmap |-> [x \in DOMAIN dm \cup {id} |->
                            IF x = id THEN rc_files.val ELSE dm[x]],
              fmap |-> fm,
              val |-> rc_files.val,
              read |-> fm[id].fst_clus # 0]
    ELSE [ok |-> FALSE, dirmap |-> dm, fmap |-> fm, val |-> <<>>, read |-> FALSE]

\* readdir that reads a known directory again on every call (not what the
\* code does)
Fs_readdir_NoCache(dm, fm, d, id) ==
    IF id \in DOMAIN fm
    THEN LET rc_files == IF fm[id].fst_clus # 0 THEN read_dirents(d, fm[id].fst_clus)
                         ELSE Ok(<<>>)
         IN  [ok |-> rc_files.ok,
              dirmap |-> [x \in DOMAIN dm \cup {id} |->
                            IF x = id THEN rc_files.val ELSE dm[x]],
              fmap |-> insert_all(fm, rc_files.val, 1),
              val |-> rc_files.val,
              read |-> fm[id].fst_clus # 0]
    ELSE IF id \in DOMAIN dm
    THEN [ok |-> TRUE, dirmap |-> dm, fmap |-> fm, val |-> dm[id], read |-> FALSE]
    ELSE [ok |-> FALSE, dirmap |-> dm, fmap |-> fm, val |-> <<>>, read |-> FALSE]

\* Fs::readdir: the maps after the call, the list returned and whether the
\* directory was read from the device
Fs_readdir(dm, fm, d, id) ==
    IF id \in DOMAIN dm
    THEN [ok |-> TRUE, dirmap |-> dm, fmap |-> fm, val |-> dm[id], read |-> FALSE]
    ELSE IF id \in DOMAIN fm
    THEN LET di == fm[id]
             rc_files == IF di.fst_clus # 0 THEN read_dirents(d, di.fst_clus)
                         ELSE Ok(<<>>)
         IN  [ok |-> rc_files.ok,
              dirmap |-> [x \in DOMAIN dm \cup {id} |->
                            IF x = id THEN rc_files.val ELSE dm[x]],
              fmap |-> insert_all(fm, rc_files.val, 1),
              val |-> rc_files.val,
              read |-> di.fst_clus # 0]
    ELSE [ok |-> FALSE, dirmap |-> dm, fmap |-> fm, val |-> <<>>, read |-> FALSE]

\* the scan of Fs::lookup over the list readdir returned
RECURSIVE lookup_scan(_, _, _)
lookup_scan(files, name, i) ==
    IF i > Len(files) THEN None
    ELSE IF files[i].name = name THEN Some(files[i])
    ELSE lookup_scan(files, name, i + 1)

Fs_getinfo(fm, id) == IF id \in DOMAIN fm THEN Some(fm[id]) ELSE None

Fs_read(fm, d, id, offset, size) ==
    IF id \in DOMAIN fm
    THEN LET r == readfile(d, fm[id], offset, size) IN
         [ok |-> r.ok, val |-> Some(r.val)]
    ELSE Ok(None)

(***************************************************************************)
(* The volumes the cache is run on.                                        *)
(***************************************************************************)
\* "README  MD ", "A       TXT", "B          ", "D          ", "E          "
NameReadme == <<82, 69, 65, 68, 77, 69, 32, 32, 77, 68, 32>>

NameA == <<65, 32, 32, 32, 32, 32, 32, 32, 84, 88, 84>>

NameB == [Blank11 EXCEPT ![1] = 66]

NameD == [Blank11 EXCEPT ![1] = 68]

NameE == [Blank11 EXCEPT ![1] = 69]

NameDot == [Blank11 EXCEPT ![1] = 46]

NameDotDot == [Blank11 EXCEPT ![1] = 46, ![2] = 46]

NameDeleted == [NameA EXCEPT ![1] = 229]

\* "Readme.md"
TextReadme == <<82, 101, 97, 100, 109, 101, 46, 109, 100>>

ChkOf(name) == chksum_fold(name, 1, 0)

\* an empty volume
Items1(st) == <<DirItem(<<>>, EndRec)>>

\* root: a file with a long name, a directory D; D: ".", "..", a file, a
\* deleted record
Items2(st) ==
    <<DirItem(<<Lfn(65, ChkOf(NameReadme), TextReadme),
                Sfn(NameReadme, 32, BODY_LOW_CASE, st[2], 3),
                Sfn(NameD, ATTR_DIRECTORY, 0, st[3], 0)>>, EndRec),
      FileItem(3, 0),
      DirItem(<<Sfn(NameDot, ATTR_DIRECTORY, 0, st[3], 0),
                Sfn(NameDotDot, ATTR_DIRECTORY, 0, 0, 0),
                Sfn(NameB, 32, 0, st[4], 5),
                Sfn(NameDeleted, 32, 0, 0, 0)>>, EndRec),
      FileItem(5, 1)>>

\* root: a volume label, a directory D, an empty file and a file of the
\* same name; D: "..", a directory E; E: ".." (D), a file
Items3(st) ==
    <<DirItem(<<Sfn(NameE, ATTR_VOLUME_ID, 0, 0, 0),
                Sfn(NameD, ATTR_DIRECTORY, 0, st[2], 0),
                Sfn(NameA, 32, 0, 0, 0),
                Sfn(NameA, 33, 0, st[4], 2)>>, EndRec),
      DirItem(<<Sfn(NameDotDot, ATTR_DIRECTORY, 0, 0, 0),
                Sfn(NameE, ATTR_DIRECTORY, 0, st[3], 0)>>, EndRec),
      DirItem(<<Sfn(NameDotDot, ATTR_DIRECTORY, 0, st[2], 0),
                Sfn(NameB, 32, 0, st[5], 4)>>, EndRec),
      FileItem(2, 0),
      FileItem(4, 0)>>

Firsts(items) == [k \in 1..Len(items) |-> First(items, k)]

Image1 == Build(Items1(<<0>>), EocBytes)

Image2 == Build(Items2(Firsts(Items2(<<0, 0, 0, 0>>))), EocBytes)

Image3 == Build(Items3(Firsts(Items3(<<0, 0, 0, 0, 0>>))), EocBytes)

\* root of two clusters: a directory D whose first cluster is the root's
\* second cluster, files filling the first cluster up to its last record,
\* then a file whose long-name record ends the first cluster and whose short
\* record starts the second
Items4(st) ==
    <<DirItem(<<Sfn(NameD, ATTR_DIRECTORY, 0, Phys(3), 0)>>
              \o [i \in 1..(EntsPerClus - 2) |-> Sfn(NameA, 32, 0, 0, 0)]
              \o <<Lfn(65, ChkOf(NameReadme), TextReadme),
                   Sfn(NameReadme, 32, BODY_LOW_CASE, st[2], 3)>>, EndRec),
      FileItem(3, 0)>>

Image4 == Build(Items4(Firsts(Items4(<<0, 0>>))), EocBytes)

\* records a directory listing is run on
RawFat32 ==
    {Sfn(NameA, 32, 0, 4, 3),
     EndRec,
     Sfn(NameDeleted, 32, 0, 4, 3),
     Sfn(NameB, ATTR_VOLUME_ID, 0, 0, 0),
     Lfn(65, ChkOf(NameA), <<97>>),
     Lfn(65, (ChkOf(NameA) + 1) % 256, <<98>>)}

RawExfat ==
    {XRec(133, 16, 0, 0, <<>>),
     XRec(192, 0, 4, 3, <<>>),
     XRec(193, 0, 0, 0, <<97>>),
     XRec(5, 0, 0, 0, <<>>),
     XFinal,
     XRec(129, 0, 2, 1, <<>>)}

SeqsUpTo(S, n) == UNION {[1..k -> S] : k \in 0..n}

\* a volume whose root directory holds the records recs
DirImage(fs, recs) ==
    IF fs = "fat32" THEN Build(<<DirItem(recs, EndRec)>>, EocBytes)
    ELSE Build(<<DirItem(recs, XFinal)>>, exfat_EocBytes)

\* a volume whose root directory holds one file of `size` bytes (for exFAT
\* followed by a second entry set), its chain `extra` clusters longer
FileItems(fs, size, extra, st) ==
    IF fs = "fat32"
    THEN <<DirItem(<<Sfn(NameA, 32, 0, st[2], size)>>, EndRec), FileItem(size, extra)>>
    ELSE <<DirItem(<<XRec(133, 0, 0, 0, <<>>), XRec(192, 0, st[2], size, <<>>),
                     XRec(193, 0, 0, 0, <<97>>),
                     XRec(133, 0, 0, 0, <<>>), XRec(192, 0, 0, 0, <<>>),
                     XRec(193, 0, 0, 0, <<98>>)>>, XFinal),
           FileItem(size, extra)>>

FileImage(fs, size, extra) ==
    Build(FileItems(fs, size, extra, Firsts(FileItems(fs, size, extra, <<0, 0>>))),
          IF fs = "fat32" THEN EocBytes ELSE exfat_EocBytes)

\* The variable disk names the volume; TheDisk is the volume itself.
Volumes == {[kind |-> "image", n |-> i] : i \in 1..3}

DirVolumes(fs, raw) == {[kind |-> "dir", fs |-> fs, recs |-> r] : r \in SeqsUpTo(raw, MaxRecs)}

FileVolumes(fs) ==
    {[kind |-> "file", fs |-> fs, size |-> sz, extra |-> e] : sz \in 0..U32Max, e \in 0..1}

DiskOf(v) ==
    IF v.kind = "image"
    THEN IF v.n = 1 THEN Image1 ELSE IF v.n = 2 THEN Image2
         ELSE IF v.n = 3 THEN Image3 ELSE Image4
    ELSE IF v.kind = "dir" THEN DirImage(v.fs, v.recs)
    ELSE FileImage(v.fs, v.size, v.extra)

TheDisk == DiskOf(disk)

(***************************************************************************)
(* The cache run by the mount bridge: Spec.                                *)
(* lastop and ret are the last call and what it returned; panicked is set  *)
(* when a call aborted the driver; for a readdir, lastop.b is 1 when the    *)
(* list was in the cache when it was called.  nreads counts, per id, the directory   *)
(* reads readdir made on the device; opens and closes count, per id, the   *)
(* successful opens and the closes issued while the count was positive.    *)
(***************************************************************************)
\* opens made in one run
MaxOpens == 2

Op(op, id, a, b) == [op |-> op, id |-> id, a |-> a, b |-> b]

NoOp == Op("init", RootId, 0, 0)

Get(f, id) == IF id \in DOMAIN f THEN f[id] ELSE 0

Put(f, id, v) == [x \in DOMAIN f \cup {id} |-> IF x = id THEN v ELSE f[x]]

Remove(f, id) == [x \in DOMAIN f \ {id} |-> f[x]]

RECURSIVE SumOf(_, _)
SumOf(f, dom) ==
    IF dom = {} THEN 0
    ELSE LET x == CHOOSE y \in dom : TRUE IN f[x] + SumOf(f, dom \ {x})

\* ids the bridge may pass: the known ones, the root, and ids it made up
ProbeIds == {U64(0, 0)}

OpIds == DOMAIN fmap \cup {RootId} \cup ProbeIds

\* the kernel sends readdir and lookup for inodes it knows as directories
DirIds == {id \in OpIds : id \in DOMAIN fmap => fmap[id].is_dir}

\* open and close are sent for the root's children, the root and made-up ids
OpenIds == {id \in OpIds : id \in DOMAIN fmap =>
                \E i \in 1..Len(dirmap[RootId]) : dirmap[RootId][i].id = id}

\* "Readme.md", "B"
LookupNames == {TextReadme, <<66>>}

ReadOffsets == {0, ClusSz + 1}

ReadSizes == {U32Max}

Init ==
    /\ backend = "fat32"
    /\ disk \in Volumes
    /\ Fs_new(TheDisk).ok
    /\ dirmap = Fs_new(TheDisk).dirmap
    /\ fmap = Fs_new(TheDisk).fmap
    /\ filesopen = NoMap
    /\ panicked = FALSE
    /\ lastop = NoOp
    /\ ret = <<>>
    /\ nreads = [x \in {RootId} |-> 1]
    /\ opens = NoMap
    /\ closes = NoMap

readdir(id) ==
    LET r == Fs_readdir(dirmap, fmap, TheDisk, id) IN
    /\ ~panicked
    /\ dirmap' = r.dirmap
    /\ fmap' = r.fmap
    /\ panicked' = ~r.ok
    /\ lastop' = Op("readdir", id, 0, IF id \in DOMAIN dirmap THEN 1 ELSE 0)
    /\ ret' = r.val
    /\ nreads' = IF r.read THEN Put(nreads, id, Get(nreads, id) + 1) ELSE nreads
    /\ UNCHANGED <<backend, disk, filesopen, opens, closes>>

lookup(parent, name) ==
    LET r == Fs_readdir(dirmap, fmap, TheDisk, parent) IN
    /\ ~panicked
    /\ dirmap' = r.dirmap
    /\ fmap' = r.fmap
    /\ panicked' = ~r.ok
    /\ lastop' = Op("lookup", parent, name, 0)
    /\ ret' = IF r.ok THEN lookup_scan(r.val, name, 1) ELSE <<>>
    /\ nreads' = IF r.read THEN Put(nreads, parent, Get(nreads, parent) + 1) ELSE nreads
    /\ UNCHANGED <<backend, disk, filesopen, opens, closes>>

getinfo(id) ==
    /\ ~panicked
    /\ lastop' = Op("getinfo", id, 0, 0)
    /\ ret' = Fs_getinfo(fmap, id)
    /\ UNCHANGED <<backend, disk, dirmap, fmap, filesopen, panicked, nreads, opens, closes>>

\* open that counts an id without looking it up (not what the code does)
open_NoLookup(id) ==
    /\ ~panicked
    /\ SumOf(opens, DOMAIN opens) < MaxOpens
    /\ lastop' = Op("open", id, 0, 0)
    /\ filesopen' = Put(filesopen, id, Get(filesopen, id) + 1)
    /\ opens' = Put(opens, id, Get(opens, id) + 1)
    /\ ret' = TRUE
    /\ UNCHANGED <<backend, disk, dirmap, fmap, panicked, nreads, closes>>

open(id) ==
    /\ ~panicked
    /\ SumOf(opens, DOMAIN opens) < MaxOpens
    /\ lastop' = Op("open", id, 0, 0)
    /\ IF Fs_getinfo(fmap, id).some
       THEN /\ filesopen' = Put(filesopen, id, Get(filesopen, id) + 1)
            /\ opens' = Put(opens, id, Get(opens, id) + 1)
            /\ ret' = TRUE
       ELSE /\ UNCHANGED <<filesopen, opens>>
            /\ ret' = FALSE
    /\ UNCHANGED <<backend, disk, dirmap, fmap, panicked, nreads, closes>>

\* close that keeps an id whose count reached zero (not what the code does)
close_KeepZero(id) ==
    /\ ~panicked
    /\ lastop' = Op("close", id, 0, 0)
    /\ ret' = <<>>
    /\ IF id \in DOMAIN filesopen
       THEN /\ filesopen' = Put(filesopen, id, filesopen[id] - 1)
            /\ closes' = Put(closes, id, Get(closes, id) + 1)
       ELSE UNCHANGED <<filesopen, closes>>
    /\ UNCHANGED <<backend, disk, dirmap, fmap, panicked, nreads, opens>>

close(id) ==
    /\ ~panicked
    /\ lastop' = Op("close", id, 0, 0)
    /\ ret' = <<>>
    /\ IF id \in DOMAIN filesopen
       THEN /\ filesopen' = IF filesopen[id] - 1 = 0 THEN Remove(filesopen, id)
                             ELSE Put(filesopen, id, filesopen[id] - 1)
            /\ closes' = Put(closes, id, Get(closes, id) + 1)
       ELSE UNCHANGED <<filesopen, closes>>
    /\ UNCHANGED <<backend, disk, dirmap, fmap, panicked, nreads, opens>>

\* read that serves only ids that are open (not what the code does)
read_OnlyOpen(id, offset, size) ==
    LET r == IF id \in DOMAIN filesopen THEN Fs_read(fmap, TheDisk, id, offset, size)
             ELSE Ok(None)
    IN
    /\ ~panicked
    /\ lastop' = Op("read", id, offset, size)
    /\ ret' = r.val
    /\ panicked' = ~r.ok
    /\ UNCHANGED <<backend, disk, dirmap, fmap, filesopen, nreads, opens, closes>>

read(id, offset, size) ==
    LET r == Fs_read(fmap, TheDisk, id, offset, size) IN
    /\ ~panicked
    /\ lastop' = Op("read", id, offset, size)
    /\ ret' = r.val
    /\ panicked' = ~r.ok
    /\ UNCHANGED <<backend, disk, dirmap, fmap, filesopen, nreads, opens, closes>>

Next ==
    \/ \E id \in DirIds : readdir(id)
    \/ \E parent \in DirIds, name \in LookupNames : lookup(parent, name)
    \/ \E id \in OpIds : getinfo(id)
    \/ \E id \in OpenIds : open(id)
    \/ \E id \in OpenIds : close(id)
    \/ \E id \in OpIds, offset \in ReadOffsets, size \in ReadSizes : read(id, offset, size)

Spec == Init /\ [][Next]_vars

(***************************************************************************)
(* The cache run on a volume with a cross-linked directory: SpecCross.     *)
(***************************************************************************)
CrossVolumes == {[kind |-> "image", n |-> 4]}

InitCross ==
    /\ backend = "fat32"
    /\ disk \in CrossVolumes
    /\ Fs_new(TheDisk).ok
    /\ dirmap = Fs_new(TheDisk).dirmap
    /\ fmap = Fs_new(TheDisk).fmap
    /\ filesopen = NoMap
    /\ panicked = FALSE
    /\ lastop = NoOp
    /\ ret = <<>>
    /\ nreads = [x \in {RootId} |-> 1]
    /\ opens = NoMap
    /\ closes = NoMap

SpecCross == InitCross /\ [][Next]_vars

(***************************************************************************)
(* Directory listings of both back-ends on arbitrary records: SpecList.    *)
(***************************************************************************)
InitList ==
    /\ backend \in {"fat32", "exfat"}
    /\ disk \in DirVolumes(backend, IF backend = "fat32" THEN RawFat32 ELSE RawExfat)
    /\ dirmap = NoMap
    /\ fmap = NoMap
    /\ filesopen = NoMap
    /\ panicked = FALSE
    /\ lastop = NoOp
    /\ ret = <<>>
    /\ nreads = NoMap
    /\ opens = NoMap
    /\ closes = NoMap

\* Fio::readroot of the FAT32 back-end
readroot ==
    LET r == read_dirents(TheDisk, TheDisk.root_clusno) IN
    /\ backend = "fat32"
    /\ lastop = NoOp
    /\ lastop' = Op("read_dirents", RootId, TheDisk.root_clusno, 0)
    /\ ret' = r.val
    /\ panicked' = ~r.ok
    /\ UNCHANGED <<backend, disk, dirmap, fmap, filesopen, nreads, opens, closes>>

\* Fio::list_root of the exFAT back-end
list_root ==
    LET r == list_dir(TheDisk, TheDisk.root_clusno) IN
    /\ backend = "exfat"
    /\ lastop = NoOp
    /\ lastop' = Op("list_dir", RootId, TheDisk.root_clusno, 0)
    /\ ret' = r.val
    /\ panicked' = ~r.ok
    /\ UNCHANGED <<backend, disk, dirmap, fmap, filesopen, nreads, opens, closes>>

NextList == readroot \/ list_root

SpecList == InitList /\ [][NextList]_vars

(***************************************************************************)
(* FAT32 listings of one group of LFN fragments and its SFN: SpecLfn.      *)
(* The group has n fragments, in disk order with the ordinals n, .., 1,    *)
(* the first with the last flag 0x40, each with the checksum of the SFN    *)
(* and the one character 'a' + ordinal - 1 as its text; `defect` spoils    *)
(* the fragment at place pos.                                              *)
(***************************************************************************)
\* fragments in one group
MaxFrags == 21

Defects == {"none", "nolast", "chk", "ordup", "orddown", "lastflag", "highbit"}

Frag(n, i, defect, pos) ==
    LET o == n - i + 1
        hit == i = pos
        ord == IF hit /\ defect = "ordup" THEN o + 1
               ELSE IF hit /\ defect = "orddown" THEN o - 1
               ELSE o
        last == IF i = 1 THEN ~(hit /\ defect = "nolast")
                ELSE hit /\ defect = "lastflag"
        high == hit /\ defect = "highbit"
    IN  Lfn(ord + (IF last THEN 64 ELSE 0) + (IF high THEN 128 ELSE 0),
            IF hit /\ defect = "chk" THEN (ChkOf(NameA) + 1) % 256 ELSE ChkOf(NameA),
            <<96 + o>>)

Group(n, defect, pos) ==
    [i \in 1..(n + 1) |->
        IF i <= n THEN Frag(n, i, defect, pos) ELSE Sfn(NameA, 32, 0, 4, 3)]

LfnVolumes ==
    {[kind |-> "dir", fs |-> "fat32", recs |-> Group(n, defect, pos)] :
        n \in 0..MaxFrags, defect \in Defects, pos \in 1..MaxFrags}

InitLfn ==
    /\ backend = "fat32"
    /\ disk \in LfnVolumes
    /\ dirmap = NoMap
    /\ fmap = NoMap
    /\ filesopen = NoMap
    /\ panicked = FALSE
    /\ lastop = NoOp
    /\ ret = <<>>
    /\ nreads = NoMap
    /\ opens = NoMap
    /\ closes = NoMap

NextLfn == readroot

SpecLfn == InitLfn /\ [][NextLfn]_vars

(***************************************************************************)
(* Mounting: the checks Fio::new makes on the boot sector, in both         *)
(* back-ends: SpecBoot.  A boot sector is the record of the fields the     *)
(* checks read.  The FAT32 sector counts are u32 values of BootBits bits;  *)
(* arithmetic that leaves the range panics in a build with overflow checks *)
(* ("debug") and wraps in one without ("release").                         *)
(***************************************************************************)
\* width of the FAT32 sector counts, in bits
BootBits == 20

BootMod == 2 ^ BootBits

BOOT_SIGN == 43605

MIN_CLUSTERS == 65526

u32_of(x, build) ==
    IF 0 <= x /\ x < BootMod THEN Ok(x)
    ELSE IF build = "debug" THEN Overflow
    ELSE Ok(x % BootMod)

\* BootSec::fat_sectors: bpb_fat_sz_32 * bpb_num_fats as u32
fat_sectors(bs, build) == u32_of(bs.fat_sz_32 * bs.num_fats, build)

\* BootSec::data_start_sector
data_start_sector(bs, build) ==
    LET fs == fat_sectors(bs, build) IN
    IF fs.ok THEN u32_of(bs.rsvd_sec_cnt + fs.val, build) ELSE fs

\* BootSec::data_sectors
data_sectors(bs, build) ==
    LET start == data_start_sector(bs, build) IN
    IF start.ok THEN u32_of(bs.tot_sec_32 - start.val, build) ELSE start

\* BootSec::check_fat32 of the FAT32 back-end
check_fat32(bs, build) ==
    IF bs.boot_sign # BOOT_SIGN THEN Panic
    ELSE LET ds == data_sectors(bs, build) IN
         IF ~ds.ok THEN ds
         ELSE IF bs.sec_per_clus = 0 THEN Panic
         ELSE IF ds.val \div bs.sec_per_clus >= MIN_CLUSTERS THEN Ok(TRUE)
         ELSE Panic

\* Fio::new of the FAT32 back-end, to the geometry of the handle
fat32_Fio_new(bs, build) ==
    LET chk == check_fat32(bs, build) IN
    IF ~chk.ok THEN chk
    ELSE Ok([root_clusno |-> bs.root_clus,
             clus_sz |-> bs.byts_per_sec * bs.sec_per_clus,
             fat_base |-> bs.rsvd_sec_cnt,
             fat_skip |-> bs.fat_sz_32,
             entries_per_sec |-> bs.byts_per_sec \div 4,
             clus_start |-> data_start_sector(bs, build).val * bs.byts_per_sec,
             clus_skip |-> 0])

\* is_valid without the check of sectors_per_cluster_shift (not what the code
\* does)
exfat_is_valid_NoClusShift(bs) ==
    Ok(/\ bs.name_ok /\ bs.zero_ok /\ bs.boot_signature = BOOT_SIGN
       /\ bs.revision_major = 1 /\ bs.number_of_fats = 1
       /\ 9 <= bs.bytes_per_sector_shift /\ bs.bytes_per_sector_shift <= 12)

\* BootSec::is_valid of exFAT: the conjuncts in the order they are evaluated
exfat_is_valid(bs) ==
    IF ~bs.name_ok THEN Ok(FALSE)
    ELSE IF ~bs.zero_ok THEN Ok(FALSE)
    ELSE IF bs.boot_signature # BOOT_SIGN THEN Ok(FALSE)
    ELSE IF bs.revision_major # 1 THEN Ok(FALSE)
    ELSE IF bs.number_of_fats # 1 THEN Ok(FALSE)
    ELSE IF ~(9 <= bs.bytes_per_sector_shift /\ bs.bytes_per_sector_shift <= 12)
    THEN Ok(FALSE)
    ELSE IF 25 - bs.bytes_per_sector_shift < 0 THEN Overflow
    ELSE Ok(bs.sectors_per_cluster_shift <= 25 - bs.bytes_per_sector_shift)

\* 1 << shift in 32 bits
shl1(shift) == IF shift >= 31 THEN Overflow ELSE Ok(2 ^ shift)

\* BootSec::bytes_per_clus: secs_per_clus() * bytes_per_sec()
bytes_per_clus(bs) ==
    IF bs.sectors_per_cluster_shift + bs.bytes_per_sector_shift >= 31 THEN Overflow
    ELSE Ok(2 ^ bs.sectors_per_cluster_shift * 2 ^ bs.bytes_per_sector_shift)

\* Fio::new of the exFAT back-end, to the geometry of the handle
exfat_Fio_new(bs) ==
    LET valid == exfat_is_valid(bs) IN
    IF ~valid.ok THEN valid
    ELSE IF ~valid.val THEN Panic
    ELSE LET sec_sz == shl1(bs.bytes_per_sector_shift)
             secs_per_clus == shl1(bs.sectors_per_cluster_shift)
             clus_sz == bytes_per_clus(bs)
         IN  IF ~sec_sz.ok \/ ~secs_per_clus.ok \/ ~clus_sz.ok THEN Overflow
             ELSE Ok([root_clusno |-> bs.first_cluster_of_root_dir,
                      sec_sz |-> sec_sz.val,
                      secs_per_clus |-> secs_per_clus.val,
                      clus_sz |-> clus_sz.val,
                      fat_offset |-> bs.fat_offset,
                      clus_heap_base |-> bs.cluster_heap_offset * sec_sz.val,
                      clus_cnt |-> bs.cluster_count,
                      dirents_per_sec |-> sec_sz.val \div 32])

Fat32BootSecs ==
    {[kind |-> "boot", fs |-> "fat32", boot_sign |-> sg, sec_per_clus |-> spc,
      byts_per_sec |-> bps, num_fats |-> nf, rsvd_sec_cnt |-> 32, fat_sz_32 |-> fsz,
      tot_sec_32 |-> tot, root_clus |-> 2] :
        sg \in {BOOT_SIGN, 0}, spc \in {0, 1, 2}, bps \in {512, 1024}, nf \in {1, 2},
        fsz \in {1, 64, BootMod \div 2},
        tot \in {0, 33, MIN_CLUSTERS + 33, MIN_CLUSTERS + 34, 2 * MIN_CLUSTERS + 160,
                 2 * MIN_CLUSTERS + 161, BootMod - 1}}

ExfatBootSecs ==
    {[kind |-> "boot", fs |-> "exfat", name_ok |-> nm, zero_ok |-> TRUE,
      boot_signature |-> sg, revision_major |-> 1, number_of_fats |-> nf,
      bytes_per_sector_shift |-> b, sectors_per_cluster_shift |-> c,
      first_cluster_of_root_dir |-> 2, fat_offset |-> 24,
      cluster_heap_offset |-> 1024, cluster_count |-> MIN_CLUSTERS] :
        nm \in BOOLEAN, sg \in {BOOT_SIGN, 0}, nf \in {0, 1, 2},
        b \in {0, 8, 9, 10, 11, 12, 13, 25, 26, 255},
        c \in {0, 1, 12, 13, 14, 15, 16, 17, 25, 255}}

InitBoot ==
    /\ backend \in {"fat32", "exfat"}
    /\ disk \in IF backend = "fat32" THEN Fat32BootSecs ELSE ExfatBootSecs
    /\ dirmap = NoMap
    /\ fmap = NoMap
    /\ filesopen = NoMap
    /\ panicked = FALSE
    /\ lastop = NoOp
    /\ ret = <<>>
    /\ nreads = NoMap
    /\ opens = NoMap
    /\ closes = NoMap

\* Fio::new of the FAT32 back-end in one of the two builds
fat32_mount(build) ==
    LET r == fat32_Fio_new(disk, build) IN
    /\ backend = "fat32"
    /\ lastop.op = "init"
    /\ lastop' = Op("mount", RootId, build, 0)
    /\ ret' = r.val
    /\ panicked' = ~r.ok
    /\ UNCHANGED <<backend, disk, dirmap, fmap, filesopen, nreads, opens, closes>>

\* Fio::new of the exFAT back-end
exfat_mount ==
    LET r == exfat_Fio_new(disk) IN
    /\ backend = "exfat"
    /\ lastop.op = "init"
    /\ lastop' = Op("mount", RootId, "any", 0)
    /\ ret' = r.val
    /\ panicked' = ~r.ok
    /\ UNCHANGED <<backend, disk, dirmap, fmap, filesopen, nreads, opens, closes>>

NextBoot ==
    \/ \E build \in {"debug", "release"} : fat32_mount(build)
    \/ exfat_mount

SpecBoot == InitBoot /\ [][NextBoot]_vars

(***************************************************************************)
(* Chain walks of both back-ends on any FAT content: SpecFat.              *)
(* The volume has FatClusters clusters, 2 .. FatClusters + 1; its FAT has  *)
(* room for one entry more, as a FAT whose last sector is not full has.    *)
(* Every entry from 2 on holds any of: free, reserved (1), bad, end of     *)
(* chain, 0x0FFFFFF0, or the number of any entry.                          *)
(***************************************************************************)
\* clusters of the volume
FatClusters == 2

BadBytes(fs) == IF fs = "fat32" THEN <<247, 255, 255, 15>> ELSE <<247, 255, 255, 255>>

FatWords(fs) ==
    {<<0, 0, 0, 0>>, <<1, 0, 0, 0>>, BadBytes(fs), <<240, 255, 255, 15>>,
     IF fs = "fat32" THEN EocBytes ELSE exfat_EocBytes}
        \cup {LeBytes(c) : c \in 2..(FatClusters + 2)}

FatVolumes(fs) ==
    {[kind |-> "fat", fs |-> fs, slots |-> sl, first |-> c] :
        sl \in [2..(FatClusters + 2) -> FatWords(fs)], c \in 2..(FatClusters + 1)}

\* the volume of a FAT content
FatImage(v) ==
    [fat |-> [p \in 0..(FatClusters + 2) |-> IF p < 2 THEN EocBytes ELSE v.slots[p]],
     clus |-> [p \in 2..(FatClusters + 1) |-> [i \in 1..ClusSz |-> p]],
     clus_sz |-> ClusSz,
     clus_cnt |-> FatClusters,
     root_clusno |-> v.first]

InitFat ==
    /\ backend \in {"fat32", "exfat"}
    /\ disk \in FatVolumes(backend)
    /\ dirmap = NoMap
    /\ fmap = NoMap
    /\ filesopen = NoMap
    /\ panicked = FALSE
    /\ lastop = NoOp
    /\ ret = <<>>
    /\ nreads = NoMap
    /\ opens = NoMap
    /\ closes = NoMap

\* how a walk ended: 0 it returned, 1 it panicked, 2 it never ends
Outcome(r) == IF r.ok THEN 0 ELSE IF r.val = <<>> THEN 1 ELSE 2

\* Fat::read_all of the FAT32 back-end from the first cluster
fat32_walk ==
    LET r == Fat_read_all(FatImage(disk), disk.first) IN
    /\ backend = "fat32"
    /\ lastop.op = "init"
    /\ lastop' = Op("walk", RootId, disk.first, Outcome(r))
    /\ ret' = IF r.ok THEN r.val ELSE <<>>
    /\ panicked' = (Outcome(r) = 1)
    /\ UNCHANGED <<backend, disk, dirmap, fmap, filesopen, nreads, opens, closes>>

\* Fio::walk_fats of the exFAT back-end from the first cluster
exfat_walk ==
    LET r == walk_fats(FatImage(disk), disk.first) IN
    /\ backend = "exfat"
    /\ lastop.op = "init"
    /\ lastop' = Op("walk", RootId, disk.first, Outcome(r))
    /\ ret' = IF r.ok THEN r.val ELSE <<>>
    /\ panicked' = (Outcome(r) = 1)
    /\ UNCHANGED <<backend, disk, dirmap, fmap, filesopen, nreads, opens, closes>>

NextFat == fat32_walk \/ exfat_walk

SpecFat == InitFat /\ [][NextFat]_vars

(***************************************************************************)
(* FAT entries and clusters read from the device by byte offset: SpecDev.  *)
(* The device is a run of `size` bytes.  The word of FAT entry `clusno` in *)
(* the first FAT is `here` (at byte `at`); a second FAT that mirrors the   *)
(* first holds it as well (at byte `at2`); every other word of the device  *)
(* is `there`.  A buffer read from the device is the pair <<offset, length>>*)
(* of the bytes it holds, the empty buffer is <<>>.                        *)
(***************************************************************************)
SEC_SZ == 512

\* the boot sector of a volume of MIN_CLUSTERS clusters of one sector
DevBoot(fs) ==
    IF fs = "fat32"
    THEN [kind |-> "boot", fs |-> "fat32", boot_sign |-> BOOT_SIGN, sec_per_clus |-> 1,
          byts_per_sec |-> SEC_SZ, num_fats |-> 2, rsvd_sec_cnt |-> 32,
          fat_sz_32 |-> 512, tot_sec_32 |-> 32 + 2 * 512 + MIN_CLUSTERS,
          root_clus |-> 2]
    ELSE [kind |-> "boot", fs |-> "exfat", name_ok |-> TRUE, zero_ok |-> TRUE,
          boot_signature |-> BOOT_SIGN, revision_major |-> 1, number_of_fats |-> 1,
          bytes_per_sector_shift |-> 9, sectors_per_cluster_shift |-> 0,
          first_cluster_of_root_dir |-> 2, fat_offset |-> 24,
          cluster_heap_offset |-> 1024, cluster_count |-> MIN_CLUSTERS]

\* first sector of the FAT and of the cluster heap, as the boot sector says
DevFatStart(bs) == IF bs.fs = "fat32" THEN bs.rsvd_sec_cnt ELSE bs.fat_offset

DevHeapStart(bs) ==
    IF bs.fs = "fat32" THEN bs.rsvd_sec_cnt + bs.num_fats * bs.fat_sz_32
    ELSE bs.cluster_heap_offset

DevClusNos ==
    {0, 1, 2, 15, 16, 17, 127, 128, 200, MIN_CLUSTERS + 1, MIN_CLUSTERS + 2,
     MIN_CLUSTERS + 9}

DevWords(fs) ==
    {<<0, 0, 0, 0>>, LeBytes(3), IF fs = "fat32" THEN EocBytes ELSE exfat_EocBytes}

DevVolumes(fs) ==
    LET bs == DevBoot(fs) IN
    {[kind |-> "dev", fs |-> fs, boot |-> bs, clusno |-> c, here |-> w, there |-> x,
      at |-> DevFatStart(bs) * SEC_SZ + 4 * c,
      at2 |-> IF m THEN (DevFatStart(bs) + bs.fat_sz_32) * SEC_SZ + 4 * c ELSE -1,
      size |-> (DevHeapStart(bs) + MIN_CLUSTERS + extra) * SEC_SZ] :
        c \in DevClusNos, w \in DevWords(fs), x \in DevWords(fs),
        m \in IF fs = "fat32" THEN BOOLEAN ELSE {FALSE}, extra \in {0, 4}}

\* the four bytes of the device at a byte offset
DevWord(dev, off) == IF off = dev.at \/ off = dev.at2 THEN dev.here ELSE dev.there

\* seek and read_exact of len bytes, unwrapped: past the end of the device the
\* read fails and the unwrap panics
Dev_read(dev, off, len) ==
    IF off + len <= dev.size THEN Ok([buf |-> <<off, len>>, reads |-> 1]) ELSE Panic

\* SecIo::read: the sector of the device it reads
SecIo_read(dev, h, sec_no) == Dev_read(dev, (h.fat_base + h.fat_skip + sec_no) * SEC_SZ, SEC_SZ)

\* Fat::read_one on the device
Fat_read_one_dev(dev, h, no) ==
    LET sec_no == no \div h.entries_per_sec
        ent_offset == no % h.entries_per_sec
        sec == SecIo_read(dev, h, sec_no)
    IN  IF ~sec.ok THEN sec
        ELSE IF 4 * (ent_offset + 1) > SEC_SZ THEN Panic
        ELSE Ok([ent |-> FatEnt_new(DevWord(dev, sec.val.buf[1] + 4 * ent_offset)),
                 reads |-> 1])

\* ClusIo::read on the device
ClusIo_read_dev(dev, h, clus_no, build) ==
    LET n == u32_of(h.clus_skip + clus_no - 2, build) IN
    IF ~n.ok THEN n
    ELSE Dev_read(dev, h.clus_start + n.val * h.clus_sz, h.clus_sz)

\* Fio::read_sec of exFAT
exfat_read_sec(dev, h, secno) == Dev_read(dev, secno * h.sec_sz, h.sec_sz)

\* the classification of a FAT word by Fio::read_fat of exFAT
exfat_FatEnt_of(buf, clus_cnt) ==
    LET low == buf[1] + 256 * buf[2] + 65536 * buf[3] IN
    IF buf[4] = 0 /\ low <= clus_cnt + 1
    THEN IF low >= 2 THEN [tag |-> "Chain", no |-> low]
         ELSE [tag |-> "Reserved", no |-> 0]
    ELSE IF buf = <<255, 255, 255, 255>> THEN [tag |-> "EndOfChain", no |-> 0]
    ELSE IF buf = <<247, 255, 255, 255>> THEN [tag |-> "BadCluster", no |-> 0]
    ELSE [tag |-> "Reserved", no |-> 0]

\* Fio::read_fat of exFAT on the device
exfat_read_fat_dev(dev, h, clusno) ==
    IF clusno < 2 \/ clusno > h.clus_cnt + 1
    THEN Ok([ent |-> [tag |-> "Reserved", no |-> 0], reads |-> 0])
    ELSE LET sec_no == clusno \div h.dirents_per_sec
             ent_off == clusno % h.dirents_per_sec
             sec == exfat_read_sec(dev, h, h.fat_offset + sec_no)
         IN  IF ~sec.ok THEN sec
             ELSE Ok([ent |-> exfat_FatEnt_of(DevWord(dev, sec.val.buf[1] + 4 * ent_off),
                                              h.clus_cnt),
                      reads |-> 1])

\* Fio::read_clus of exFAT on the device
exfat_read_clus(dev, h, clusno) ==
    IF clusno < 2 \/ clusno > h.clus_cnt + 1 THEN Ok([buf |-> <<>>, reads |-> 0])
    ELSE Dev_read(dev, h.clus_heap_base + (clusno - 2) * h.clus_sz, h.clus_sz)

InitDev ==
    /\ backend \in {"fat32", "exfat"}
    /\ disk \in DevVolumes(backend)
    /\ dirmap = NoMap
    /\ fmap = NoMap
    /\ filesopen = NoMap
    /\ panicked = FALSE
    /\ lastop = NoOp
    /\ ret = <<>>
    /\ nreads = NoMap
    /\ opens = NoMap
    /\ closes = NoMap

\* the handle Fio::new makes of the volume
DevHandle(dev) ==
    IF dev.fs = "fat32" THEN fat32_Fio_new(dev.boot, "debug").val
    ELSE exfat_Fio_new(dev.boot).val

\* one read of a FAT entry; lastop.b counts the reads of the device
read_entry ==
    LET r == IF backend = "fat32"
             THEN Fat_read_one_dev(disk, DevHandle(disk), disk.clusno)
             ELSE exfat_read_fat_dev(disk, DevHandle(disk), disk.clusno)
    IN  /\ lastop.op = "init"
        /\ lastop' = Op("read_entry", RootId, disk.clusno, IF r.ok THEN r.val.reads ELSE 0)
        /\ ret' = IF r.ok THEN r.val.ent ELSE <<>>
        /\ panicked' = ~r.ok
        /\ UNCHANGED <<backend, disk, dirmap, fmap, filesopen, nreads, opens, closes>>

\* one read of a cluster by the FAT32 back-end in one of the two builds
fat32_read_clus(build) ==
    LET r == ClusIo_read_dev(disk, DevHandle(disk), disk.clusno, build) IN
    /\ backend = "fat32"
    /\ lastop.op = "init"
    /\ lastop' = Op("read_clus", RootId, disk.clusno, IF r.ok THEN r.val.reads ELSE 0)
    /\ ret' = IF r.ok THEN r.val.buf ELSE <<>>
    /\ panicked' = ~r.ok
    /\ UNCHANGED <<backend, disk, dirmap, fmap, filesopen, nreads, opens, closes>>

\* one read of a cluster by the exFAT back-end
exfat_read_cluster ==
    LET r == exfat_read_clus(disk, DevHandle(disk), disk.clusno) IN
    /\ backend = "exfat"
    /\ lastop.op = "init"
    /\ lastop' = Op("read_clus", RootId, disk.clusno, IF r.ok THEN r.val.reads ELSE 0)
    /\ ret' = IF r.ok THEN r.val.buf ELSE <<>>
    /\ panicked' = ~r.ok
    /\ UNCHANGED <<backend, disk, dirmap, fmap, filesopen, nreads, opens, closes>>

NextDev ==
    \/ read_entry
    \/ \E build \in {"debug", "release"} : fat32_read_clus(build)
    \/ exfat_read_cluster

SpecDev == InitDev /\ [][NextDev]_vars

(***************************************************************************)
(* exFAT listings of entry sets laid out in bytes: SpecSet.                *)
(* The root directory holds two entry sets of a FileOrDir, a StreamExt and *)
(* a FileName record and the primary of a third; the primary of a set      *)
(* carries secondary_cnt and set_checksum, the latter right or wrong.      *)
(***************************************************************************)
\* one step of the fold of entset_checksum at byte index i (from 0)
entset_step(bytes, sum, i) ==
    IF i = 2 \/ i = 3 THEN sum
    ELSE ((sum \div 2) + bytes[i + 1] + (IF sum % 2 # 0 THEN 32768 ELSE 0)) % 65536

\* the fold over the byte indices lo..hi in rising order, from the u16 sum
\* (read first, so that it is a value before the indices are split)
RECURSIVE entset_fold(_, _, _, _)
entset_fold(bytes, lo, hi, sum) ==
    IF sum < 0 \/ lo > hi THEN sum
    ELSE IF lo = hi THEN entset_step(bytes, sum, lo)
    ELSE LET mid == (lo + hi) \div 2
             left == entset_fold(bytes, lo, mid, sum)
         IN  entset_fold(bytes, mid + 1, hi, left)

\* spec::entset_checksum; the count of bytes is (secondary_count + 1) in u8
entset_checksum(bytes, secondary_count, build) ==
    LET cnt == IF secondary_count + 1 <= 255 THEN Ok(secondary_count + 1)
               ELSE IF build = "debug" THEN Overflow
               ELSE Ok((secondary_count + 1) % 256)
        num_of_bytes == cnt.val * 32
    IN  IF ~cnt.ok THEN cnt
        ELSE IF Len(bytes) < num_of_bytes THEN Panic
        ELSE Ok(entset_fold(bytes, 0, num_of_bytes - 1, 0))

\* n as k little-endian bytes
RECURSIVE LeN(_, _)
LeN(n, k) == IF k = 0 THEN <<>> ELSE <<n % 256>> \o LeN(n \div 256, k - 1)

Zeros(k) == [i \in 1..k |-> 0]

\* the UTF-16 units of a text, little-endian
RECURSIVE Utf16(_, _)
Utf16(text, i) == IF i > Len(text) THEN <<>> ELSE <<text[i], 0>> \o Utf16(text, i + 1)

\* the 32 bytes of a record on the disk (the layouts DirEnt::new reads)
XBytes(rec) ==
    IF rec.typ = 133
    THEN <<133, rec.secondary_cnt>> \o LeN(rec.set_checksum, 2)
            \o LeN(rec.file_attributes, 2) \o Zeros(26)
    ELSE IF rec.typ = 192
    THEN <<192, 0, 0, Len(rec.text)>> \o Zeros(4) \o LeN(rec.valid_data_length, 8)
            \o Zeros(4) \o LeN(rec.first_cluster, 4) \o LeN(rec.valid_data_length, 8)
    ELSE <<rec.typ, 0>> \o Utf16(rec.text, 1) \o Zeros(30 - 2 * Len(rec.text))

\* an entry set of one name record, its set_checksum right (delta = 0) or off
\* by delta
XSet(attr, first_cluster, size, text, delta) ==
    LET prim == XRec(133, attr, 0, 0, <<>>) @@ [secondary_cnt |-> 2, set_checksum |-> 0]
        strm == XRec(192, 0, first_cluster, size, text)
        name == XRec(193, 0, 0, 0, text)
        sum == entset_checksum(XBytes(prim) \o XBytes(strm) \o XBytes(name), 2, "debug").val
    IN  <<[prim EXCEPT !.set_checksum = (sum + delta) % 65536], strm, name>>

SetVolumes ==
    {[kind |-> "dir", fs |-> "exfat",
      recs |-> XSet(a, 4, 3, t, d1) \o XSet(16, 5, 0, u, d2)
                  \o <<XRec(133, 0, 0, 0, <<>>) @@ [secondary_cnt |-> 2, set_checksum |-> 0]>>] :
        a \in {0, 1, 16, 32}, t \in {<<97>>, <<98>>, <<97, 98>>},
        u \in {<<99>>, <<100, 101>>}, d1 \in {0, 1, 256}, d2 \in {0, 1}}

InitSet ==
    /\ backend = "exfat"
    /\ disk \in SetVolumes
    /\ dirmap = NoMap
    /\ fmap = NoMap
    /\ filesopen = NoMap
    /\ panicked = FALSE
    /\ lastop = NoOp
    /\ ret = <<>>
    /\ nreads = NoMap
    /\ opens = NoMap
    /\ closes = NoMap

NextSet == list_root

SpecSet == InitSet /\ [][NextSet]_vars

(***************************************************************************)
(* The decoders and checksums applied to drawn arguments: SpecFn.          *)
(* disk is the argument: a FAT word, a short name (with the NT-case byte), *)
(* a buffer of entry-set bytes (byte i is (seed * i + 7) mod 256) with a   *)
(* secondary count, or an exFAT date/time (date and time halves of the     *)
(* 32-bit field) with a timezone byte.  An instant is <<minutes since the  *)
(* Unix epoch, seconds>>.                                                  *)
(***************************************************************************)
QUARTER == 900

\* a ^ b on n bits
RECURSIVE BitXor(_, _, _)
BitXor(a, b, n) ==
    IF n = 0 THEN 0
    ELSE (IF a % 2 # b % 2 THEN 1 ELSE 0) + 2 * BitXor(a \div 2, b \div 2, n - 1)

\* impl From<u32> for DateTime, on the two halves of the value
DateTime_from(val) ==
    [year |-> (val[1] \div 512) % 256,
     month |-> (val[1] \div 32) % 16,
     day |-> val[1] % 32,
     hour |-> (val[2] \div 2048) % 32,
     minute |-> (val[2] \div 32) % 64,
     second |-> val[2] % 32]

\* chrono: FixedOffset::east_opt and west_opt
east_opt(secs) == IF -86400 < secs /\ secs < 86400 THEN Some(secs) ELSE None

west_opt(secs) == east_opt(-secs)

IsLeap(y) == y % 4 = 0 /\ (y % 100 # 0 \/ y % 400 = 0)

DaysInMonth(y, m) ==
    IF m = 2 THEN IF IsLeap(y) THEN 29 ELSE 28
    ELSE IF m \in {4, 6, 9, 11} THEN 30 ELSE 31

\* days from 1970-01-01 to the day y-m-d
DaysFromEpoch(y, m, d) ==
    LET leaps(x) == x \div 4 - x \div 100 + x \div 400
        RECURSIVE before(_)
        before(k) == IF k = 0 THEN 0 ELSE DaysInMonth(y, k) + before(k - 1)
    IN  365 * (y - 1970) + leaps(y - 1) - leaps(1969) + before(m - 1) + d - 1

\* chrono: tz.with_ymd_and_hms(..).single() as an instant
with_ymd_and_hms(tz, y, m, d, h, mi, sec) ==
    IF /\ 1 <= m /\ m <= 12 /\ 1 <= d /\ d <= DaysInMonth(y, m)
       /\ h < 24 /\ mi < 60 /\ sec < 60
    THEN Some(<<DaysFromEpoch(y, m, d) * 1440 + h * 60 + mi - tz \div 60, sec>>)
    ELSE None

\* make_time without the branch of the negative offsets (not what the code
\* does)
make_time_AllEast(datetime, tz_off) ==
    LET dt == DateTime_from(datetime)
        tz == IF tz_off >= 128 THEN east_opt((tz_off - 128) * QUARTER) ELSE east_opt(0)
    IN  IF ~tz.some THEN None
        ELSE with_ymd_and_hms(tz.val, 1980 + dt.year, dt.month, dt.day,
                              dt.hour, dt.minute, dt.second)

\* FileOrDir::make_time
make_time(datetime, tz_off) ==
    LET dt == DateTime_from(datetime)
        tz == IF tz_off >= 128
              THEN LET val == tz_off - 128 IN
                   IF val < 64 THEN east_opt(val * QUARTER)
                   ELSE west_opt((BitXor(val, 127, 32) + 1) * QUARTER)
              ELSE east_opt(0)
    IN  IF ~tz.some THEN None
        ELSE with_ymd_and_hms(tz.val, 1980 + dt.year, dt.month, dt.day,
                              dt.hour, dt.minute, dt.second)

UNIX_EPOCH == <<0, 0>>

\* FileOrDir::acc_time
acc_time(ent) ==
    LET t == make_time(ent.last_acc_dt, ent.last_acc_tz_off) IN
    IF t.some THEN t.val ELSE UNIX_EPOCH

FnWords ==
    {<<b0, b1, b2, b3>> : b0 \in {0, 1, 2, 247, 248, 255}, b1 \in {0, 255},
                          b2 \in {0, 255}, b3 \in {0, 15, 16, 31, 240, 255}}

FnNames ==
    {<<b0, b1, b2, 32, 32, 32, 32, b7, e0, e1, e2>> :
        b0 \in {65, 5, 32, 229, 255}, b1 \in {32, 66}, b2 \in {32, 67}, b7 \in {32, 72},
        e0 \in {32, 84}, e1 \in {32, 88}, e2 \in {32, 84}}

\* a date/time field from its parts
FnDateTime(y, m, d, h, mi, sec) == <<y * 512 + m * 32 + d, h * 2048 + mi * 32 + sec>>

FnDateTimes ==
    {FnDateTime(40, 2, 29, 12, 30, 10), FnDateTime(0, 1, 1, 0, 0, 0),
     FnDateTime(127, 12, 31, 23, 59, 29), FnDateTime(40, 0, 1, 0, 0, 0),
     FnDateTime(40, 1, 0, 0, 0, 0), FnDateTime(41, 2, 29, 0, 0, 0),
     FnDateTime(120, 2, 29, 0, 0, 0), FnDateTime(40, 13, 1, 0, 0, 0),
     FnDateTime(40, 1, 1, 24, 0, 0), FnDateTime(40, 1, 1, 0, 60, 0)}

FnArgs ==
    {[kind |-> "arg", fn |-> "FatEnt_new", buf |-> w] : w \in FnWords}
        \cup {[kind |-> "arg", fn |-> "create_chksum", name |-> n] : n \in FnNames}
        \cup {[kind |-> "arg", fn |-> "name", name |-> n, nt_res |-> c] :
                  n \in FnNames, c \in {0, 8, 16, 24}}
        \cup {[kind |-> "arg", fn |-> "entset_checksum", secondary_count |-> c,
                seed |-> sd, extra |-> x] :
                  c \in {0, 1, 2, 18, 254, 255}, sd \in {0, 1, 3, 85}, x \in {0, 32}}
        \cup {[kind |-> "arg", fn |-> "acc_time", last_acc_dt |-> dt,
                last_acc_tz_off |-> tz] : dt \in FnDateTimes, tz \in 0..255}

\* the buffer of an entset_checksum argument
FnBuf(arg) ==
    [i \in 1..((arg.secondary_count + 1) * 32 + arg.extra) |-> (arg.seed * i + 7) % 256]

InitFn ==
    /\ backend \in {"fat32", "exfat"}
    /\ disk \in FnArgs
    /\ (backend = "fat32") = (disk.fn \in {"FatEnt_new", "create_chksum", "name"})
    /\ dirmap = NoMap
    /\ fmap = NoMap
    /\ filesopen = NoMap
    /\ panicked = FALSE
    /\ lastop = NoOp
    /\ ret = <<>>
    /\ nreads = NoMap
    /\ opens = NoMap
    /\ closes = NoMap

\* a call of a function that returns
FnCall(fn, val) ==
    /\ disk.fn = fn
    /\ lastop.op = "init"
    /\ lastop' = Op(fn, RootId, 0, 0)
    /\ ret' = val
    /\ UNCHANGED <<backend, disk, dirmap, fmap, filesopen, panicked, nreads, opens,
                   closes>>

call_FatEnt_new == FnCall("FatEnt_new", FatEnt_new(disk.buf))

call_create_chksum == FnCall("create_chksum", create_chksum(disk))

call_name == FnCall("name", sfn_name(disk))

call_acc_time == FnCall("acc_time", acc_time(disk))

\* entset_checksum in one of the two builds
call_entset_checksum(build) ==
    LET r == entset_checksum(FnBuf(disk), disk.secondary_count, build) IN
    /\ disk.fn = "entset_checksum"
    /\ lastop.op = "init"
    /\ lastop' = Op("entset_checksum", RootId, 0, 0)
    /\ ret' = IF r.ok THEN r.val ELSE <<>>
    /\ panicked' = ~r.ok
    /\ UNCHANGED <<backend, disk, dirmap, fmap, filesopen, nreads, opens, closes>>

NextFn ==
    \/ call_FatEnt_new
    \/ call_create_chksum
    \/ call_name
    \/ call_acc_time
    \/ \E build \in {"debug", "release"} : call_entset_checksum(build)

SpecFn == InitFn /\ [][NextFn]_vars

(***************************************************************************)
(* Range reads of both back-ends on a file of any size: SpecRead.          *)
(***************************************************************************)
InitRead ==
    /\ backend \in {"fat32", "exfat"}
    /\ disk \in FileVolumes(backend)
    /\ dirmap = NoMap
    /\ fmap = IF backend = "fat32" THEN Fs_new(TheDisk).fmap
              ELSE insert_all(NoMap, list_dir(TheDisk, TheDisk.root_clusno).val, 1)
    /\ filesopen = NoMap
    /\ panicked = FALSE
    /\ lastop = NoOp
    /\ ret = <<>>
    /\ nreads = NoMap
    /\ opens = NoMap
    /\ closes = NoMap

\* Fio::read_file of the exFAT back-end, on a file-info a listing returned
read_file(id, offset, size) ==
    /\ backend = "exfat"
    /\ lastop = NoOp
    /\ lastop' = Op("read_file", id, offset, size)
    /\ ret' = exfat_read_file(TheDisk, fmap[id], offset, size)
    /\ UNCHANGED <<backend, disk, dirmap, fmap, filesopen, panicked, nreads, opens, closes>>

NextRead ==
    \/ /\ backend = "fat32"
       /\ lastop = NoOp
       /\ \E id \in DOMAIN fmap \cup ProbeIds, offset \in 0..U32Max, size \in 0..U32Max :
             read(id, offset, size)
    \/ \E id \in DOMAIN fmap, offset \in 0..U32Max, size \in 0..U32Max :
             read_file(id, offset, size)

SpecRead == InitRead /\ [][NextRead]_vars

(***************************************************************************)
(* What is on the disk, read without the drivers: the records of the root  *)
(* directory's chain in disk order, and where each lies.                   *)
(***************************************************************************)
RootChain ==
    IF backend = "fat32" THEN Fat_read_all(TheDisk, TheDisk.root_clusno).val
    ELSE walk_fats(TheDisk, TheDisk.root_clusno).val

\* number of records of the root directory
RootLen == Len(RootChain) * EntsPerClus

\* the p-th record (p = 1, 2, ..) of the root directory, its cluster and its
\* offset in the cluster
RecAt(p) == TheDisk.clus[RootChain[(p - 1) \div EntsPerClus + 1]][((p - 1) % EntsPerClus) + 1]

ClusAt(p) == RootChain[(p - 1) \div EntsPerClus + 1]

OffAt(p) == (p - 1) % EntsPerClus

\* the place (0 if none) of the first record that ends the directory
IsTerminator(rec) ==
    IF backend = "fat32" THEN rec.attr # ATTR_LONG_FILE_NAME /\ rec.name[1] = 0
    ELSE rec.typ = 0

FirstEnd ==
    IF \E p \in 1..RootLen : IsTerminator(RecAt(p))
    THEN CHOOSE p \in 1..RootLen :
            IsTerminator(RecAt(p)) /\ \A q \in 1..(p - 1) : ~IsTerminator(RecAt(q))
    ELSE 0

\* exFAT: the records from place p to the terminator are well-formed entry
\* sets (FileOrDir, StreamExt, FileName..): the places of their primaries,
\* or <<0>> if they are not
RECURSIVE EntrySets(_, _)
EntrySets(p, acc) ==
    IF p = FirstEnd THEN acc
    ELSE IF p + 2 < FirstEnd /\ RecAt(p).typ = 133 /\ RecAt(p + 1).typ = 192
            /\ RecAt(p + 2).typ = 193
    THEN LET next == CHOOSE q \in (p + 3)..FirstEnd :
                        /\ \A r \in (p + 3)..(q - 1) : RecAt(r).typ = 193
                        /\ (q = FirstEnd \/ RecAt(q).typ # 193)
         IN  EntrySets(next, Append(acc, p))
    ELSE <<0>>

WellFormedSets == IF FirstEnd = 0 THEN <<0>> ELSE EntrySets(1, <<>>)

\* the records of the entry set whose primary is at place p, decoded
RECURSIVE SetAt(_, _)
SetAt(p, first) ==
    IF p >= FirstEnd \/ (~first /\ RecAt(p).typ = 133) THEN <<>>
    ELSE <<exfat_DirEnt_new(RecAt(p), ClusAt(p), OffAt(p))>> \o SetAt(p + 1, FALSE)

(***************************************************************************)
(* C1: an exFAT directory of k >= 1 well-formed entry sets followed by a   *)
(* FinalUnused record lists exactly k file-infos, one per set, in disk     *)
(* order, the last set included.  The code drops the set pending when the  *)
(* records run out.                                                        *)
(***************************************************************************)
C1_ListsEverySet ==
    (lastop.op = "list_dir" /\ WellFormedSets # <<0>> /\ Len(WellFormedSets) >= 1)
        => /\ ~panicked
           /\ Len(ret) = Len(WellFormedSets)
           /\ \A j \in 1..Len(WellFormedSets) :
                 ret[j] = exfat_try_from(SetAt(WellFormedSets[j], TRUE)).val

(***************************************************************************)
(* C2: in a FAT32 listing no record after the first SFN with name[0] = 0,  *)
(* in the same or in a later cluster of the chain, gives a file-info.  The *)
(* code's break leaves only the loop over one cluster.                     *)
(***************************************************************************)
\* the place of the record a FAT32 file-info was made from
PlaceOfId(id) ==
    CHOOSE p \in 1..RootLen : ClusAt(p) = id[2] /\ OffAt(p) = id[1]

C2_EndStopsListing ==
    (lastop.op = "read_dirents" /\ ~panicked /\ FirstEnd # 0)
        => \A j \in 1..Len(ret) : PlaceOfId(ret[j].id) < FirstEnd

(***************************************************************************)
(* The bytes of a file, read without the driver: its chain's clusters in   *)
(* chain order, cut at the size its directory record gives.                *)
(***************************************************************************)
ChainOf(fi) ==
    IF fi.fst_clus = 0 THEN <<>>
    ELSE IF backend = "fat32" THEN Fat_read_all(TheDisk, fi.fst_clus).val
    ELSE walk_fats(TheDisk, fi.fst_clus).val

FileBytes(fi) ==
    SubSeq(concat([i \in 1..Len(ChainOf(fi)) |-> TheDisk.clus[ChainOf(fi)[i]]], 1),
           1, fi.size)

\* the last call was a range read of a file the cache knows
ReadDone == lastop.op = "read" /\ lastop.id \in DOMAIN fmap

ReadLen(S, offset, size) == IF offset < S THEN Min(size, S - offset) ELSE 0

(***************************************************************************)
(* C3: read(id, offset, size) of a file of S bytes returns exactly         *)
(* min(size, S - offset) bytes when offset < S and no bytes when           *)
(* offset >= S or size = 0, for every 32-bit offset and size, with no      *)
(* arithmetic overflow and no abort.                                       *)
(***************************************************************************)
C3_ReadLength ==
    ReadDone =>
        /\ ~panicked
        /\ ret.some
        /\ Len(ret.val) = ReadLen(fmap[lastop.id].size, lastop.a, lastop.b)

\* a read from inside the second cluster whose offset + size is beyond the
\* u32 range and which is cut at the end of the file
C3_Witness ==
    /\ ReadDone
    /\ lastop.a > ClusSz
    /\ lastop.a + lastop.b > U32Max
    /\ Len(ret.val) = fmap[lastop.id].size - lastop.a
    /\ Len(ret.val) >= 2

(***************************************************************************)
(* C4: when offset + size is within the file, read(id, offset, size) is    *)
(* read(id, 0, offset + size) without its first offset bytes, and its      *)
(* byte j is byte offset + j of the file.                                  *)
(***************************************************************************)
C4_ReadIsSuffix ==
    (ReadDone /\ lastop.a + lastop.b <= fmap[lastop.id].size) =>
        /\ ret.some
        /\ ret.val = skip(Fs_read(fmap, TheDisk, lastop.id, 0, lastop.a + lastop.b).val.val,
                          lastop.a)
        /\ Len(ret.val) = lastop.b
        /\ \A j \in 1..lastop.b : ret.val[j] = FileBytes(fmap[lastop.id])[lastop.a + j]

\* a read that starts inside one cluster and ends inside a later one
C4_Witness ==
    /\ ReadDone
    /\ lastop.a + lastop.b <= fmap[lastop.id].size
    /\ lastop.a % ClusSz # 0
    /\ lastop.b > ClusSz
    /\ Len(ret.val) = lastop.b
    /\ \E i, j \in 1..lastop.b : ret.val[i] # ret.val[j]

(***************************************************************************)
(* C5: the exFAT read_file gives the same bytes: min(size, S - offset)     *)
(* bytes of the file from offset on.  The code returns no bytes at all.    *)
(***************************************************************************)
C5_ExfatReadLength ==
    lastop.op = "read_file" =>
        /\ Len(ret) = ReadLen(fmap[lastop.id].size, lastop.a, lastop.b)
        /\ \A j \in 1..Len(ret) : ret[j] = FileBytes(fmap[lastop.id])[lastop.a + j]

\* the last call was a readdir that found its list in the cache
CachedReaddir == lastop.op = "readdir" /\ lastop.b = 1

C7_ReaddirCached ==
    [][\A id \in DOMAIN dirmap :
          /\ id \in DOMAIN dirmap'
          /\ dirmap'[id] = dirmap[id]
          /\ Get(nreads', id) = Get(nreads, id)
          /\ (lastop'.op = "readdir" /\ lastop'.id = id) =>
                (ret' = dirmap[id] /\ lastop'.b = 1 /\ fmap' = fmap /\ ~panicked')]_vars

\* a second readdir of a directory that is not the root: the list is the
\* cached one, not empty, and the device was read once for it
C7_Witness ==
    /\ CachedReaddir
    /\ lastop.id # RootId
    /\ ret = dirmap[lastop.id]
    /\ Len(ret) > 0
    /\ Get(nreads, lastop.id) = 1

(***************************************************************************)
(* C9: for an id that is neither the root nor in the file-info map,        *)
(* lookup, getinfo and read return None and readdir gives no entries; the  *)
(* driver does not abort.  The code's readdir, and lookup through it,      *)
(* panics on such an id.                                                   *)
(***************************************************************************)
C9_UnknownIdIsQuiet ==
    (lastop.op \in {"readdir", "lookup", "getinfo", "read"}
        /\ lastop.id \notin DOMAIN fmap \cup {RootId})
    => /\ ~panicked
       /\ (lastop.op = "readdir" => ret = <<>>)
       /\ (lastop.op # "readdir" => ret = None)

(***************************************************************************)
(* C10: the open-count map holds, for every id, the number of successful   *)
(* opens less the number of closes made while the count was positive;      *)
(* every stored count is at least 1 and an id whose count reached zero is  *)
(* not in the map.                                                         *)
(***************************************************************************)
C10_OpenCounts ==
    /\ \A id \in DOMAIN filesopen \cup DOMAIN opens \cup DOMAIN closes :
          Get(filesopen, id) = Get(opens, id) - Get(closes, id)
    /\ \A id \in DOMAIN filesopen : filesopen[id] >= 1
    /\ (lastop.op = "open" => ret = (lastop.id \in DOMAIN fmap))

\* after a close: an id whose only open was closed is gone from the map
\* while another id is still open
C10_Witness ==
    /\ lastop.op = "close"
    /\ \E id \in DOMAIN opens :
          /\ opens[id] = 1 /\ Get(closes, id) = 1 /\ id \notin DOMAIN filesopen
    /\ \E id \in DOMAIN filesopen : TRUE

\* the record at place p is the primary record of a directory entry
IsPrimary(p) ==
    IF backend = "fat32" THEN RecAt(p).attr # ATTR_LONG_FILE_NAME
    ELSE RecAt(p).typ = 133

\* the last call was a listing of the root directory that returned
Listed == lastop.op \in {"read_dirents", "list_dir"} /\ ~panicked

C11_OpenCloseUnknown ==
    [][/\ (lastop'.op = "open" /\ lastop'.id \notin DOMAIN fmap) =>
             (ret' = FALSE /\ filesopen' = filesopen /\ ~panicked')
       /\ (lastop'.op = "close" /\ lastop'.id \notin DOMAIN filesopen) =>
             (filesopen' = filesopen /\ closes' = closes /\ ~panicked')
       /\ \A id \in DOMAIN filesopen' : id \in DOMAIN fmap' /\ filesopen'[id] >= 1]_vars

\* an open of an unknown id has failed while another id is open; the id has
\* no open count
C11_Witness ==
    /\ lastop.op = "open"
    /\ lastop.id \notin DOMAIN fmap
    /\ ret = FALSE
    /\ lastop.id \notin DOMAIN filesopen
    /\ \E id \in DOMAIN filesopen : filesopen[id] >= 1

(***************************************************************************)
(* The group of LFN fragments at the head of the root directory, read      *)
(* without the driver.                                                     *)
(***************************************************************************)
\* the records of the root directory in disk order
RootRecs ==
    LET d == TheDisk
        chain == Fat_read_all(d, d.root_clusno).val
    IN  concat([i \in 1..Len(chain) |-> d.clus[chain[i]]], 1)

\* the number of LFN fragments before the first SFN
RECURSIVE NFrags(_, _)
NFrags(recs, p) ==
    IF p <= Len(recs) /\ recs[p].attr = ATTR_LONG_FILE_NAME THEN 1 + NFrags(recs, p + 1)
    ELSE 0

\* the checksum of the 11 name bytes of a short name (rotate right, add)
RECURSIVE SfnSum(_, _)
SfnSum(name, k) ==
    IF k = 0 THEN 0
    ELSE LET prev == SfnSum(name, k - 1) IN
         ((prev % 2) * 128 + prev \div 2 + name[k]) % 256

\* the four rules of a long name of n fragments
LongNameHolds(recs, n) ==
    /\ 1 <= n /\ n <= 20
    /\ (recs[1].name[1] \div 64) % 2 = 1
    /\ LET sum == SfnSum(recs[n + 1].name, 11) IN \A p \in 1..n : recs[p].chk = sum
    /\ \A p \in 1..n : recs[p].name[1] % 64 = n - p + 1

\* the texts of the fragments, the last on disk first
RECURSIVE LongName(_, _)
LongName(recs, p) == IF p = 0 THEN <<>> ELSE recs[p].text \o LongName(recs, p - 1)

(***************************************************************************)
(* C12: for a group of n LFN fragments immediately followed by a live SFN  *)
(* the listing gives one file-info; its name is the long name if and only  *)
(* if 1 <= n <= 20, the first fragment on disk has the last flag 0x40,     *)
(* every fragment has the checksum of the SFN and the ordinals descend     *)
(* n, .., 1 in disk order; otherwise it is the decoded short name.         *)
(***************************************************************************)
C12_LongNameRule ==
    lastop.op = "read_dirents" =>
        LET recs == RootRecs
            n == NFrags(recs, 1)
        IN  /\ ~panicked
            /\ Len(ret) = 1
            /\ ret[1].id = U64(n % EntsPerClus, RootChain[n \div EntsPerClus + 1])
            /\ ret[1].size = recs[n + 1].file_size
            /\ LongNameHolds(recs, n) => ret[1].name = LongName(recs, n)
            /\ ~LongNameHolds(recs, n) => ret[1].name = <<65, 46, 84, 88, 84>>

\* a long name of 20 fragments is taken
C12_Witness ==
    /\ lastop.op = "read_dirents"
    /\ Len(ret) = 1
    /\ Len(ret[1].name) = 20
    /\ ret[1].name[1] = 97 /\ ret[1].name[20] = 116
    /\ NFrags(RootRecs, 1) = 20

\* the last call was a mount of the back-end
Mounted(fs) == lastop.op = "mount" /\ backend = fs

(***************************************************************************)
(* C13: a FAT32 boot sector is accepted if and only if its word at offset  *)
(* 510 is 0xAA55, sectors_per_cluster is not 0, bytes_per_sector is 512,   *)
(* number_of_fats is 2 and (total_sectors_32 - data_start_sector) /        *)
(* sectors_per_cluster >= 65526; any other one, also one with              *)
(* total_sectors_32 < data_start_sector, is refused.  The code checks the  *)
(* signature and the cluster count only.                                   *)
(***************************************************************************)
Fat32Acceptable(bs) ==
    /\ bs.boot_sign = BOOT_SIGN
    /\ bs.sec_per_clus # 0
    /\ bs.byts_per_sec = 512
    /\ bs.num_fats = 2
    /\ bs.tot_sec_32 >= bs.rsvd_sec_cnt + bs.fat_sz_32 * bs.num_fats
    /\ (bs.tot_sec_32 - (bs.rsvd_sec_cnt + bs.fat_sz_32 * bs.num_fats))
            \div bs.sec_per_clus >= MIN_CLUSTERS

C13_Fat32MountRule ==
    Mounted("fat32") => (~panicked <=> Fat32Acceptable(disk))

(***************************************************************************)
(* C14: an exFAT boot sector that is_valid accepts gives bytes_per_sector  *)
(* in {512, 1024, 2048, 4096}, sectors_per_cluster a power of two,         *)
(* bytes_per_cluster = bytes_per_sector * sectors_per_cluster of at most   *)
(* 32 MiB with no overflow, and number_of_fats = 1; one whose              *)
(* bytes_per_sector_shift is outside 9..12 or whose                        *)
(* sectors_per_cluster_shift is above 25 - bytes_per_sector_shift is       *)
(* rejected, with no underflow.                                            *)
(***************************************************************************)
C14_ExfatGeometry ==
    Mounted("exfat") =>
        /\ panicked => ret = <<>>
        /\ ~panicked =>
              /\ ret.sec_sz \in {512, 1024, 2048, 4096}
              /\ \E k \in 0..16 : ret.secs_per_clus = 2 ^ k
              /\ ret.clus_sz = ret.sec_sz * ret.secs_per_clus
              /\ ret.clus_sz <= 32 * 1024 * 1024
              /\ disk.number_of_fats = 1
        /\ (\/ disk.bytes_per_sector_shift < 9
            \/ disk.bytes_per_sector_shift > 12
            \/ disk.sectors_per_cluster_shift > 25 - disk.bytes_per_sector_shift)
              => panicked

\* a boot sector with clusters of 32 MiB is accepted
C14_Witness ==
    /\ Mounted("exfat")
    /\ ~panicked
    /\ disk.bytes_per_sector_shift = 12
    /\ ret.secs_per_clus = 8192
    /\ ret.clus_sz = 32 * 1024 * 1024

\* the last call was a chain walk
Walked == lastop.op = "walk"

(***************************************************************************)
(* C15: for every FAT content, also one whose entries form a cycle, the    *)
(* walk of a chain from any first cluster ends and gives at most           *)
(* cluster_count cluster numbers, in both back-ends.  Neither walker       *)
(* remembers the clusters it has visited.                                  *)
(***************************************************************************)
C15_WalkEnds ==
    Walked => /\ lastop.b # 2
              /\ Len(ret) <= FatClusters

(***************************************************************************)
(* C16: every cluster number c a walk gives satisfies                      *)
(* 2 <= c <= cluster_count + 1, in both back-ends, for every FAT content.  *)
(* The FAT32 iterator follows any word that is not one of the special      *)
(* values.                                                                 *)
(***************************************************************************)
C16_WalkInRange ==
    (Walked /\ lastop.b = 0) =>
        \A i \in 1..Len(ret) : 2 <= ret[i] /\ ret[i] <= FatClusters + 1

\* the chain from cluster c by the words of the FAT, read without the
\* drivers: the clusters passed and the word that ended it
RECURSIVE RefWalk(_, _)
RefWalk(c, acc) ==
    LET w == disk.slots[c]
        seen == Append(acc, c)
    IN  IF w = <<1, 0, 0, 0>> THEN [end |-> "reserved", seen |-> seen]
        ELSE IF w = BadBytes(backend) THEN [end |-> "bad", seen |-> seen]
        ELSE IF \E n \in 2..(FatClusters + 1) :
                    w = LeBytes(n) /\ \A i \in 1..Len(seen) : seen[i] # n
        THEN RefWalk(CHOOSE n \in 2..(FatClusters + 1) : w = LeBytes(n), seen)
        ELSE [end |-> "other", seen |-> seen]

(***************************************************************************)
(* C17: in both back-ends a walk that reads a Reserved entry for a cluster *)
(* in mid-chain ends normally and gives the clusters visited so far, that  *)
(* cluster last; a Bad entry in mid-chain is fatal.  The FAT32 iterator    *)
(* panics on a Reserved entry as it does on a Bad one.                     *)
(***************************************************************************)
C17_ReservedEndsWalk ==
    Walked =>
        LET ref == RefWalk(disk.first, <<>>) IN
        /\ (ref.end = "reserved" /\ Len(ref.seen) >= 2) =>
              (lastop.b = 0 /\ ret = ref.seen)
        /\ (ref.end = "bad" /\ Len(ref.seen) >= 2) => lastop.b = 1

\* a read of the device-level operations has been made
DevDone(op) == disk.kind = "dev" /\ lastop.op = op

\* bytes per sector and clusters of the volume, as its boot sector says
BytesPerSector(bs) ==
    IF bs.fs = "fat32" THEN bs.byts_per_sec ELSE 2 ^ bs.bytes_per_sector_shift

ClusterCount(bs) ==
    IF bs.fs = "fat32"
    THEN (bs.tot_sec_32 - DevHeapStart(bs)) \div bs.sec_per_clus
    ELSE bs.cluster_count

(***************************************************************************)
(* C18: in both back-ends read_entry(clusno) classifies the little-endian  *)
(* 32-bit word at byte fat_start * bytes_per_sector + 4 * clusno of the    *)
(* device (fat_start: reserved_sector_count in FAT32, fat_offset in        *)
(* exFAT).  The exFAT driver divides clusno by the directory entries per   *)
(* sector, the FAT32 driver reads the second FAT.                          *)
(***************************************************************************)
C18_FatEntryOffset ==
    (DevDone("read_entry") /\ 2 <= lastop.a /\ lastop.a <= ClusterCount(disk.boot) + 1) =>
        LET bs == disk.boot
            w == DevWord(disk, DevFatStart(bs) * BytesPerSector(bs) + 4 * lastop.a)
        IN  /\ ~panicked
            /\ ret = IF bs.fs = "fat32" THEN FatEnt_new(w)
                      ELSE exfat_FatEnt_of(w, ClusterCount(bs))

BytesPerCluster(bs) ==
    IF bs.fs = "fat32" THEN bs.byts_per_sec * bs.sec_per_clus
    ELSE 2 ^ (bs.bytes_per_sector_shift + bs.sectors_per_cluster_shift)

(***************************************************************************)
(* C19: in both back-ends read_cluster(clusno) with clusno < 2 or          *)
(* clusno > cluster_count + 1 returns an empty buffer, reads nothing from  *)
(* the device and does not abort; with clusno in range it reads exactly    *)
(* bytes_per_cluster bytes at heap_start + (clusno - 2) * bytes_per_cluster.*)
(* The FAT32 driver has no range check.                                    *)
(***************************************************************************)
C19_ClusterRead ==
    DevDone("read_clus") =>
        LET bs == disk.boot
            c == lastop.a
        IN  /\ ~panicked
            /\ IF c < 2 \/ c > ClusterCount(bs) + 1
               THEN ret = <<>> /\ lastop.b = 0
               ELSE ret = <<DevHeapStart(bs) * BytesPerSector(bs)
                              + (c - 2) * BytesPerCluster(bs),
                            BytesPerCluster(bs)>>

\* exFAT: the records of the root directory before its terminator, decoded,
\* in disk order
XRootRecs ==
    LET d == TheDisk
        chain == walk_fats(d, d.root_clusno).val
        all == [p \in 1..(Len(chain) * EntsPerClus) |->
                   exfat_DirEnt_new(d.clus[chain[(p - 1) \div EntsPerClus + 1]]
                                          [((p - 1) % EntsPerClus) + 1],
                                    chain[(p - 1) \div EntsPerClus + 1],
                                    (p - 1) % EntsPerClus)]
        n == IF \E p \in 1..Len(all) : all[p].t = "FinalUnused"
             THEN (CHOOSE p \in 1..Len(all) :
                      /\ all[p].t = "FinalUnused"
                      /\ \A q \in 1..(p - 1) : all[q].t # "FinalUnused") - 1
             ELSE Len(all)
    IN  SubSeq(all, 1, n)

\* the entry sets of the records: a set runs from a primary, or from the first
\* record, to the record before the next primary
RECURSIVE XSets(_, _, _, _)
XSets(recs, p, cur, acc) ==
    IF p > Len(recs) THEN IF cur = <<>> THEN acc ELSE Append(acc, cur)
    ELSE IF recs[p].t = "FileOrDir" /\ cur # <<>>
    THEN XSets(recs, p + 1, <<recs[p]>>, Append(acc, cur))
    ELSE XSets(recs, p + 1, Append(cur, recs[p]), acc)

\* the rule of a set that reduces to a file-info
XSetRule(set) ==
    /\ Len(set) >= 3
    /\ set[1].t = "FileOrDir"
    /\ set[2].t = "StreamExt"
    /\ \A i \in 3..Len(set) : set[i].t = "FileName"

\* the file-infos of the sets that keep the rule, in disk order
RECURSIVE XExpected(_, _)
XExpected(sets, i) ==
    IF i > Len(sets) THEN <<>>
    ELSE (IF XSetRule(sets[i]) THEN <<exfat_try_from(sets[i]).val>> ELSE <<>>)
            \o XExpected(sets, i + 1)

\* a listing of an exFAT directory of set entries only has been made
XListed(recs) ==
    /\ lastop.op = "list_dir"
    /\ \A p \in 1..Len(recs) : recs[p].t \in {"FileOrDir", "StreamExt", "FileName"}

(***************************************************************************)
(* C20: in an exFAT listing a set gives a file-info exactly when it has    *)
(* three entries or more, a FileOrDir first, a StreamExt second and only   *)
(* FileName entries after them; a set that fails the rule is left out      *)
(* without an abort, and every set that keeps the rule, before it and      *)
(* after it, is returned, in disk order.  The code never reduces the set   *)
(* that is pending when the records run out.                               *)
(***************************************************************************)
C20_BadSetOmitted ==
    LET recs == XRootRecs IN
    XListed(recs) =>
        /\ ~panicked
        /\ ret = XExpected(XSets(recs, 1, <<>>, <<>>), 1)

\* the set_checksum a set ought to carry: the checksum of its bytes
RECURSIVE XCat(_, _)
XCat(set, i) == IF i > Len(set) THEN <<>> ELSE XBytes(set[i].ent) \o XCat(set, i + 1)

XSetSum(set) == entset_checksum(XCat(set, 1), Len(set) - 1, "debug").val

\* the set (<<>> if none) whose primary lies where the id of a file-info says
XSetOfId(sets, id) ==
    IF \E k \in 1..Len(sets) : sets[k][1].pos = <<id[2], id[1]>>
    THEN sets[CHOOSE k \in 1..Len(sets) : sets[k][1].pos = <<id[2], id[1]>>]
    ELSE <<>>

(***************************************************************************)
(* C21: every file-info of an exFAT listing comes from an entry set whose  *)
(* 16-bit rotate-add checksum (bytes 2..3 of the primary left out) equals  *)
(* the set_checksum of its primary; a set whose checksum differs is        *)
(* dropped and the listing goes on.  The code never computes the checksum. *)
(***************************************************************************)
C21_ChecksumGuardsListing ==
    (lastop.op = "list_dir" /\ disk \in SetVolumes) =>
        LET sets == XSets(XRootRecs, 1, <<>>, <<>>) IN
        /\ ~panicked
        /\ \A i \in 1..Len(ret) :
              LET set == XSetOfId(sets, ret[i].id) IN
              /\ set # <<>>
              /\ XSetSum(set) = set[1].ent.set_checksum

\* FAT32: a listing of a directory drawn record by record, none of them an
\* end-of-directory record, has been made
FatListed ==
    /\ backend = "fat32" /\ disk.kind = "dir" /\ lastop.op = "read_dirents"
    /\ \A p \in 1..Len(disk.recs) : ~IsTerminator(disk.recs[p])

\* an SFN record that is deleted or a volume label
IsFiltered(rec) ==
    /\ rec.attr # ATTR_LONG_FILE_NAME
    /\ (rec.name[1] = 229 \/ (rec.attr \div 8) % 2 = 1)

\* the places of the SFN records that are neither, in disk order
RECURSIVE FilePlaces(_, _)
FilePlaces(recs, p) ==
    IF p > Len(recs) THEN <<>>
    ELSE (IF recs[p].attr # ATTR_LONG_FILE_NAME /\ ~IsFiltered(recs[p]) THEN <<p>> ELSE <<>>)
            \o FilePlaces(recs, p + 1)

(***************************************************************************)
(* C22: in a FAT32 listing an SFN record with name[0] = 0xE5 or with the   *)
(* attribute bit 0x08 (attribute not 0x0F) gives no file-info and does not *)
(* stop the listing: the file-infos are those of the other SFN records, in *)
(* disk order, and an entry that follows such a record directly has its    *)
(* short name, whatever fragments came before the record.                  *)
(***************************************************************************)
C22_FilteredSfnSkipped ==
    FatListed =>
        LET recs == disk.recs
            places == FilePlaces(recs, 1)
        IN  /\ ~panicked
            /\ Len(ret) = Len(places)
            /\ \A j \in 1..Len(places) :
                  LET p == places[j] IN
                  /\ ret[j].id = U64((p - 1) % EntsPerClus, ClusAt(p))
                  /\ (p > 1 /\ IsFiltered(recs[p - 1])) => ret[j].name = sfn_name(recs[p])

\* fragments that fit the entry, a deleted or volume-label SFN, the entry
C22_Witness ==
    /\ FatListed
    /\ Len(disk.recs) = 3
    /\ disk.recs[1] = Lfn(65, ChkOf(NameA), <<97>>)
    /\ IsFiltered(disk.recs[2])
    /\ disk.recs[3] = Sfn(NameA, 32, 0, 4, 3)
    /\ Len(ret) = 1
    /\ ret[1].name = sfn_name(disk.recs[3])

\* a call of SpecFn has been made
FnDone(fn) == disk.kind = "arg" /\ lastop.op = fn

\* the low 28 bits of a little-endian 32-bit word
Low28(buf) == buf[1] + 256 * buf[2] + 65536 * buf[3] + 16777216 * (buf[4] % 16)

(***************************************************************************)
(* C23: the class of a FAT32 FAT word hangs on its low 28 bits v alone:    *)
(* v = 0 is Unused, v = 1 Reserved, v = 0x0FFFFFF7 Bad, v from 0x0FFFFFF8  *)
(* to 0x0FFFFFFF the end of a chain, and every other v gives Next(v).      *)
(***************************************************************************)
C23_FatEntLow28 ==
    FnDone("FatEnt_new") =>
        LET v == Low28(disk.buf) IN
        ret = IF v = 0 THEN [tag |-> "Unused", no |-> 0]
              ELSE IF v = 1 THEN [tag |-> "Reserved", no |-> 0]
              ELSE IF v = 268435447 THEN [tag |-> "Bad", no |-> 0]
              ELSE IF 268435448 <= v /\ v <= 268435455 THEN [tag |-> "Eoc", no |-> 0]
              ELSE [tag |-> "Next", no |-> v]

\* an end-of-chain word with bits in its top nibble
C23_Witness ==
    /\ FnDone("FatEnt_new")
    /\ disk.buf[4] = 255
    /\ ret.tag = "Eoc"

\* an 8-bit value turned right by one bit
Ror8(x) == (x \div 2) + 128 * (x % 2)

\* the recurrence over the first k bytes of a name
RECURSIVE RotateAdd8(_, _)
RotateAdd8(name, k) ==
    IF k = 0 THEN 0 ELSE (Ror8(RotateAdd8(name, k - 1)) + name[k]) % 256

(***************************************************************************)
(* C24: for every 11-byte short name create_chksum is the value of the     *)
(* recurrence sum := ror8(sum) + name[i] (mod 256) from sum = 0 over the   *)
(* bytes 0..10.                                                            *)
(***************************************************************************)
C24_SfnChecksum ==
    FnDone("create_chksum") => ret = RotateAdd8(disk.name, 11)

\* a name whose sum leaves 8 bits on the way
C24_Witness ==
    /\ FnDone("create_chksum")
    /\ disk.name = <<255, 66, 67, 32, 32, 32, 32, 72, 84, 88, 84>>
    /\ ret = RotateAdd8(disk.name, 11)
    /\ Ror8(RotateAdd8(disk.name, 1)) + disk.name[2] > 255

\* a 16-bit value turned right by one bit
Ror16(x) == (x \div 2) + 32768 * (x % 2)

\* the 16-bit recurrence over the bytes lo..hi (from 0) of a buffer, the
\* bytes 2 and 3 left out, from the sum reached before them
RECURSIVE RotateAdd16(_, _, _, _)
RotateAdd16(bytes, lo, hi, sum) ==
    IF sum < 0 \/ lo > hi THEN sum
    ELSE IF lo = hi
    THEN IF lo \in {2, 3} THEN sum ELSE (Ror16(sum) + bytes[lo + 1]) % 65536
    ELSE LET mid == (lo + hi) \div 2
             left == RotateAdd16(bytes, lo, mid, sum)
         IN  RotateAdd16(bytes, mid + 1, hi, left)

(***************************************************************************)
(* C25: for every secondary_count in 0..255 and every buffer of at least   *)
(* (secondary_count + 1) * 32 bytes entset_checksum returns the 16-bit     *)
(* rotate-right-then-add sum over exactly the first (secondary_count + 1)  *)
(* * 32 bytes, the bytes 2 and 3 left out; the count of bytes does not     *)
(* overflow 8 bits.  The code adds 1 to the count in 8 bits.               *)
(***************************************************************************)
C25_EntsetChecksum ==
    FnDone("entset_checksum") =>
        /\ ~panicked
        /\ ret = RotateAdd16(FnBuf(disk), 0, (disk.secondary_count + 1) * 32 - 1, 0)

\* a sequence without its trailing spaces
RECURSIVE TrimEnd(_)
TrimEnd(seq) ==
    IF seq # <<>> /\ seq[Len(seq)] = 32 THEN TrimEnd(SubSeq(seq, 1, Len(seq) - 1)) ELSE seq

\* the decoded name of the rule
DecodedName(name, nt_res) ==
    LET first == IF name[1] = 5 THEN 229 ELSE name[1]
        base == TrimEnd(<<first>> \o SubSeq(name, 2, 8))
        ext == SelectSeq(SubSeq(name, 9, 11), LAMBDA ch : ch # 32)
        res == IF ext = <<>> THEN base ELSE base \o <<46>> \o ext
    IN  IF (nt_res \div 8) % 2 = 1 THEN [i \in 1..Len(res) |-> to_lowercase(res[i])]
        ELSE res

(***************************************************************************)
(* C26: the decoded SFN name is the base (bytes 0..8 without their         *)
(* trailing spaces, interior spaces kept, a first byte 0x05 read as 0xE5), *)
(* then '.' and the extension (bytes 8..11 without spaces) when there is   *)
(* one, in lower case exactly when the NT-case bit 0x08 is set.  The code  *)
(* ends the base at its first space.                                       *)
(***************************************************************************)
C26_SfnName ==
    FnDone("name") => ret = DecodedName(disk.name, disk.nt_res)

\* the UTC offset of a timezone byte, in minutes
TzOffset(tz) ==
    IF (tz \div 128) % 2 = 0 THEN 0
    ELSE LET v == tz % 128 IN
         IF v < 64 THEN v * 15 ELSE -((127 - v) + 1) * 15

\* the parts of a date/time field name a calendar instant
IsCalendar(dt) ==
    /\ dt.month \in 1..12
    /\ dt.day \in 1..DaysInMonth(1980 + dt.year, dt.month)
    /\ dt.hour <= 23 /\ dt.minute <= 59 /\ dt.second <= 59

(***************************************************************************)
(* C30: an exFAT timezone byte with bit 0x80 clear is the offset 0; with   *)
(* the bit set and v = tz & 0x7F it is +v * 15 minutes for v < 0x40 and    *)
(* -((v XOR 0x7F) + 1) * 15 minutes for v >= 0x40, so every byte decodes   *)
(* to an offset from -16:00 to +15:45; a date/time field that is no        *)
(* calendar instant gives the Unix epoch.                                  *)
(***************************************************************************)
C30_TimezoneOffset ==
    FnDone("acc_time") =>
        LET dt == DateTime_from(disk.last_acc_dt)
            off == TzOffset(disk.last_acc_tz_off)
        IN  /\ -16 * 60 <= off /\ off <= 15 * 60 + 45
            /\ IF IsCalendar(dt)
               THEN ret = <<DaysFromEpoch(1980 + dt.year, dt.month, dt.day) * 1440
                              + dt.hour * 60 + dt.minute - off, dt.second>>
               ELSE ret = UNIX_EPOCH

\* the offset -16:00 of the byte 0xC0 on 2020-02-29 12:30:10
C30_Witness ==
    /\ FnDone("acc_time")
    /\ disk.last_acc_tz_off = 192
    /\ disk.last_acc_dt = FnDateTime(40, 2, 29, 12, 30, 10)
    /\ ret = <<DaysFromEpoch(2020, 2, 29) * 1440 + 12 * 60 + 30 + 16 * 60, 10>>

\* the children the directory map holds, as <<directory id, place>> pairs
Children == UNION {{<<d, i>> : i \in 1..Len(dirmap[d])} : d \in DOMAIN dirmap}

\* C27: in every reachable state every key of the directory map is the root
\* id 1 or a key of the file-info map, and every child record of every
\* directory-map list is the record the file-info map holds under that
\* child's id.
C27_CacheClosed ==
    /\ \A d \in DOMAIN dirmap : d = RootId \/ d \in DOMAIN fmap
    /\ \A x \in Children :
          LET child == dirmap[x[1]][x[2]] IN
          child.id \in DOMAIN fmap /\ fmap[child.id] = child

\* C28: a record getinfo(id) can return stays the record getinfo(id) returns
\* after every readdir, lookup, getinfo, open, close and read: no step
\* removes a file-info-map or directory-map entry or replaces it by a
\* different one.
C28_RecordsStable ==
    [][/\ \A id \in DOMAIN fmap :
            Fs_getinfo(fmap', id) = Fs_getinfo(fmap, id)
       /\ \A d \in DOMAIN dirmap :
            d \in DOMAIN dirmap' /\ dirmap'[d] = dirmap[d]]_vars

\* C29: open and close leave the directory map, the file-info map, the
\* geometry and the device as they were, and what readdir, lookup, getinfo
\* and read return is fixed by the two maps and the volume alone, whatever
\* the open counts are (a read of an id that is not open included).
C29_OpenCloseFrame ==
    [][LET o == lastop' IN
       /\ o.op \in {"open", "close"} => UNCHANGED <<dirmap, fmap, disk, backend, panicked>>
       /\ o.op = "getinfo" => ret' = Fs_getinfo(fmap, o.id)
       /\ o.op = "read" => ret' = Fs_read(fmap, TheDisk, o.id, o.a, o.b).val
       /\ o.op = "readdir" => ret' = Fs_readdir(dirmap, fmap, TheDisk, o.id).val
       /\ o.op = "lookup" =>
             LET r == Fs_readdir(dirmap, fmap, TheDisk, o.id) IN
             r.ok => ret' = lookup_scan(r.val, o.a, 1)]_vars

\* a read returned the bytes of a file that had been opened and closed again
C29_Witness ==
    /\ lastop.op = "read"
    /\ lastop.id \in DOMAIN fmap
    /\ lastop.id \notin DOMAIN filesopen
    /\ Get(closes, lastop.id) > 0
    /\ ret.some
    /\ ret.val # <<>>

====
